---------------------------- MODULE Spec2Model ----------------------------
(***************************************************************************)
(* Model of the ATS resume scorer (backend/ats_scorer.py, ml_model.py).    *)
(*                                                                         *)
(* Strings are sequences of one-character strings.  Python floats are      *)
(* modelled as exact rationals <<n, d>> in lowest terms with d > 0; the    *)
(* numbers that occur (ratios of small counts, hundredths, weights in      *)
(* hundredths) are far coarser than double precision, so comparisons       *)
(* against thresholds agree with the float computation.                    *)
(***************************************************************************)
EXTENDS Integers, Sequences, FiniteSets, TLC

(***************************************************************************)
(* Bounds of the model.                                                    *)
(***************************************************************************)
MaxSkills == 2          \* largest resume / job skill set
MaxEntries == 2         \* most resume experience entries
MaxRequiredYears == 5   \* largest experience_years of a job
MaxCalls == 2           \* calls of calculate_score on the same inputs
MaxLines == 4           \* most lines of a resume text

(***************************************************************************)
(* Strings: str.lower, str.strip, str.split, substring test.               *)
(***************************************************************************)
\* The element of a singleton set.  Value({F(x) : x \in {e}}) evaluates e
\* once and names its value x, like an assignment to a local variable.
Value(S) == CHOOSE r \in S : TRUE

UpperChars == <<"A","B","C","D","E","F","G","H","I","J","K","L","M",
                "N","O","P","Q","R","S","T","U","V","W","X","Y","Z">>
LowerChars == <<"a","b","c","d","e","f","g","h","i","j","k","l","m",
                "n","o","p","q","r","s","t","u","v","w","x","y","z">>
Whitespace == {" ", "\t", "\n"}
Digits == <<"0","1","2","3","4","5","6","7","8","9">>

LowerChar(c) ==
    IF \E i \in 1..26 : UpperChars[i] = c
    THEN LowerChars[CHOOSE i \in 1..26 : UpperChars[i] = c]
    ELSE c

\* str.lower(), one half of the string after the other
RECURSIVE lower(_)
lower(s) ==
    IF s = <<>> THEN <<>>
    ELSE IF Len(s) = 1 THEN <<LowerChar(s[1])>>
    ELSE lower(SubSeq(s, 1, Len(s) \div 2))
         \o lower(SubSeq(s, Len(s) \div 2 + 1, Len(s)))

RECURSIVE lstrip(_)
lstrip(s) == IF s # <<>> /\ Head(s) \in Whitespace THEN lstrip(Tail(s)) ELSE s

RECURSIVE rstrip(_)
rstrip(s) ==
    IF s # <<>> /\ s[Len(s)] \in Whitespace
    THEN rstrip(SubSeq(s, 1, Len(s) - 1))
    ELSE s

strip(s) == rstrip(lstrip(s))

\* variant of normalize: comparison that keeps the case
normalize_case_sensitive(s) == strip(s)

\* the normalisation  s.lower().strip()  of skills and keywords
normalize(s) == strip(lower(s))

\* Python's  sub in s
Contains(s, sub) ==
    \E i \in 0..(Len(s) - Len(sub)) : SubSeq(s, i + 1, i + Len(sub)) = sub

\* ' '.join(list)
RECURSIVE join_space(_)
join_space(l) ==
    IF l = <<>> THEN <<>>
    ELSE IF Len(l) = 1 THEN l[1]
    ELSE l[1] \o <<" ">> \o join_space(Tail(l))

\* str.split() with no argument: maximal runs of non-whitespace
RECURSIVE split_ws(_, _)
split_ws(s, cur) ==
    IF s = <<>> THEN (IF cur = <<>> THEN <<>> ELSE <<cur>>)
    ELSE IF Head(s) \in Whitespace
         THEN (IF cur = <<>> THEN <<>> ELSE <<cur>>) \o split_ws(Tail(s), <<>>)
         ELSE split_ws(Tail(s), Append(cur, Head(s)))

split(s) == split_ws(s, <<>>)

(***************************************************************************)
(* difflib.SequenceMatcher(None, a, b).ratio() for strings shorter than    *)
(* 200 characters (no junk, no autojunk).  Positions are 0-based and       *)
(* ranges half-open, as in difflib.                                        *)
(***************************************************************************)
RECURSIVE RunLength(_, _, _, _, _, _)
\* length of the common run of a[i:ahi] and b[j:bhi] starting at i and j
RunLength(a, b, i, ahi, j, bhi) ==
    IF i < ahi /\ j < bhi /\ a[i + 1] = b[j + 1]
    THEN 1 + RunLength(a, b, i + 1, ahi, j + 1, bhi)
    ELSE 0

\* the longest matching block in a[alo:ahi], b[blo:bhi]; among the longest
\* the one starting earliest in a, and among those earliest in b
find_longest_match(a, b, alo, ahi, blo, bhi) ==
    Value({IF blocks = {} THEN [i |-> alo, j |-> blo, k |-> 0]
           ELSE CHOOSE m \in blocks :
                    \A q \in blocks :
                        \/ q.k < m.k
                        \/ q.k = m.k /\ m.i < q.i
                        \/ q.k = m.k /\ m.i = q.i /\ m.j <= q.j :
           blocks \in
               {{[i |-> i, j |-> j, k |-> RunLength(a, b, i, ahi, j, bhi)] :
                     <<i, j>> \in {p \in (alo..(ahi - 1)) \X (blo..(bhi - 1)) :
                                       a[p[1] + 1] = b[p[2] + 1]}}}})

RECURSIVE matching_size(_, _, _, _, _, _)
\* total size of get_matching_blocks() restricted to a[alo:ahi], b[blo:bhi]
matching_size(a, b, alo, ahi, blo, bhi) ==
    Value({IF m.k = 0 THEN 0
           ELSE m.k
                + (IF alo < m.i /\ blo < m.j
                   THEN matching_size(a, b, alo, m.i, blo, m.j) ELSE 0)
                + (IF m.i + m.k < ahi /\ m.j + m.k < bhi
                   THEN matching_size(a, b, m.i + m.k, ahi, m.j + m.k, bhi) ELSE 0) :
           m \in {find_longest_match(a, b, alo, ahi, blo, bhi)}})

\* ratio() as the pair <<2 * matches, len(a) + len(b)>>; 1.0 for two empty strings
ratio(a, b) ==
    IF Len(a) + Len(b) = 0 THEN <<1, 1>>
    ELSE <<2 * matching_size(a, b, 0, Len(a), 0, Len(b)), Len(a) + Len(b)>>

(***************************************************************************)
(* Numbers.  A float is a rational <<n, d>> in lowest terms, d > 0.  The   *)
(* pair ZeroDivisionError (d = 0) stands for the exception a division by   *)
(* zero raises; every operation on it yields it again, as the exception    *)
(* propagates to the caller.                                               *)
(***************************************************************************)
Abs(n) == IF n < 0 THEN -n ELSE n

RECURSIVE GCD(_, _)
GCD(a, b) == IF b = 0 THEN a ELSE GCD(b, a % b)

Rat(n, d) ==
    Value({<<((IF d < 0 THEN -1 ELSE 1) * n) \div g,
             ((IF d < 0 THEN -1 ELSE 1) * d) \div g>> : g \in {GCD(Abs(n), Abs(d))}})

ZeroDivisionError == <<0, 0>>
IsError(x) == x[2] = 0

\* Python's  a / b
truediv(a, b) ==
    Value({IF IsError(x) \/ IsError(y) \/ y[1] = 0 THEN ZeroDivisionError
           ELSE Rat(x[1] * y[2], x[2] * y[1]) : x \in {a}, y \in {b}})

mul(a, b) ==
    Value({IF IsError(x) \/ IsError(y) THEN ZeroDivisionError
           ELSE Rat(x[1] * y[1], x[2] * y[2]) : x \in {a}, y \in {b}})

add(a, b) ==
    Value({IF IsError(x) \/ IsError(y) THEN ZeroDivisionError
           ELSE Rat(x[1] * y[2] + y[1] * x[2], x[2] * y[2]) : x \in {a}, y \in {b}})

Num(n) == <<n, 1>>
Less(a, b) == \E x \in {a}, y \in {b} : x[1] * y[2] < y[1] * x[2]
LessEq(a, b) == \E x \in {a}, y \in {b} : x[1] * y[2] <= y[1] * x[2]

\* Python's  min(a, b)
min(a, b) ==
    Value({IF IsError(x) \/ IsError(y) THEN ZeroDivisionError
           ELSE IF Less(y, x) THEN y ELSE x : x \in {a}, y \in {b}})

RECURSIVE Pow10(_)
Pow10(k) == IF k = 0 THEN 1 ELSE 10 * Pow10(k - 1)

\* round half to even of the fraction n / d, d > 0
RoundHalfEven(n, d) ==
    LET q == n \div d
        r == n % d
    IN  IF 2 * r < d THEN q
        ELSE IF 2 * r > d THEN q + 1
        ELSE IF q % 2 = 0 THEN q ELSE q + 1

\* Python's  round(x, ndigits): to the nearest multiple of 10^-ndigits,
\* a tie to the even one
round(a, ndigits) ==
    Value({IF IsError(x) THEN ZeroDivisionError
           ELSE Rat(RoundHalfEven(x[1] * Pow10(ndigits), x[2]), Pow10(ndigits)) :
           x \in {a}})

(***************************************************************************)
(* Iteration orders of a Python set: every enumeration without repetition. *)
(***************************************************************************)
Orderings(S) ==
    {f \in [1..Cardinality(S) -> S] : \A i, j \in DOMAIN f : i # j => f[i] # f[j]}

Range(f) == {f[i] : i \in DOMAIN f}

(***************************************************************************)
(* ATSScorer._score_skills                                                 *)
(***************************************************************************)
\* variant of is_similar: threshold included (>= 0.8)
is_similar_inclusive(job_skill, resume_skill) ==
    \E similarity \in {ratio(job_skill, resume_skill)} : LessEq(<<8, 10>>, similarity)

\* "if similarity > 0.8"
is_similar(job_skill, resume_skill) ==
    \E similarity \in {ratio(job_skill, resume_skill)} : Less(<<8, 10>>, similarity)

\* variant of scan_resume_skills: break after the first resume skill,
\* similar or not
scan_first_only(job_skill, order) ==
    order # <<>> /\ \E similarity \in {ratio(job_skill, Head(order))} :
                        Less(<<8, 10>>, similarity)

RECURSIVE scan_resume_skills(_, _)
\* the inner loop: TRUE iff the scan of the resume skills, in the given
\* order, reaches a similar one (and breaks there)
scan_resume_skills(job_skill, order) ==
    IF order = <<>> THEN FALSE
    ELSE IF is_similar(job_skill, Head(order)) THEN TRUE
    ELSE scan_resume_skills(job_skill, Tail(order))

RECURSIVE fuzzy_loop(_, _, _)
\* the outer loop over remaining_job_skills, accumulating fuzzy_matches
fuzzy_loop(remaining_order, resume_order, fuzzy_matches) ==
    IF remaining_order = <<>> THEN fuzzy_matches
    ELSE fuzzy_loop(Tail(remaining_order), resume_order,
                    IF scan_resume_skills(Head(remaining_order), resume_order)
                    THEN fuzzy_matches \cup {Head(remaining_order)}
                    ELSE fuzzy_matches)

resume_skills_lower(resume_skills) == {normalize(s) : s \in resume_skills}
job_skills_lower(job_skills) == {normalize(s) : s \in job_skills}
exact_matches(resume_skills, job_skills) ==
    resume_skills_lower(resume_skills) \cap job_skills_lower(job_skills)
remaining_job_skills(resume_skills, job_skills) ==
    job_skills_lower(job_skills) \ exact_matches(resume_skills, job_skills)

\* variant of skills_result: the matched skills are not taken out of the
\* missing skills
skills_result_keeps_matched(job_skills, jl, exact, fuzzy) ==
    Value({[score |-> min(score, Num(100)),
            matched_skills |-> matched_skills,
            missing_skills |-> job_skills,
            exact |-> exact, fuzzy |-> fuzzy] :
           matched_skills \in
               {{job_skill_orig \in job_skills :
                     normalize(job_skill_orig) \in (exact \cup fuzzy)}},
           score \in
               {IF jl # {}
                THEN mul(truediv(Num(Cardinality(exact) + Cardinality(fuzzy)),
                                 Num(Cardinality(jl))), Num(100))
                ELSE Num(100)}})

\* lines 100-113: the original-case sets and the score, from the match sets
skills_result(job_skills, jl, exact, fuzzy) ==
    Value({[score |-> min(score, Num(100)),
            matched_skills |-> matched_skills,
            missing_skills |-> job_skills \ matched_skills,
            exact |-> exact, fuzzy |-> fuzzy] :
           matched_skills \in
               {{job_skill_orig \in job_skills :
                     normalize(job_skill_orig) \in (exact \cup fuzzy)}},
           score \in
               {IF jl # {}
                THEN mul(truediv(Num(Cardinality(exact) + Cardinality(fuzzy)),
                                 Num(Cardinality(jl))), Num(100))
                ELSE Num(100)}})

\* variant of _score_skills: an empty job skill set scores 0
score_skills_zero_when_empty(resume_skills, job_skills, resume_order, remaining_order) ==
    IF job_skills = {}
    THEN [score |-> Num(0), matched_skills |-> {}, missing_skills |-> {},
          exact |-> {}, fuzzy |-> {}]
    ELSE Value({skills_result(job_skills, jl, exact, fuzzy) :
                jl \in {job_skills_lower(job_skills)},
                exact \in {exact_matches(resume_skills, job_skills)},
                fuzzy \in {fuzzy_loop(remaining_order, resume_order, {})}})

\* variant of _score_skills: the vacuous 100 also when the resume has no skills
score_skills_vacuous_either(resume_skills, job_skills, resume_order, remaining_order) ==
    IF job_skills = {} \/ resume_skills = {}
    THEN [score |-> Num(100), matched_skills |-> {}, missing_skills |-> {},
          exact |-> {}, fuzzy |-> {}]
    ELSE Value({skills_result(job_skills, jl, exact, fuzzy) :
                jl \in {job_skills_lower(job_skills)},
                exact \in {exact_matches(resume_skills, job_skills)},
                fuzzy \in {fuzzy_loop(remaining_order, resume_order, {})}})

\* resume_order, remaining_order: the orders in which the two loops iterate
\* over resume_skills_lower and remaining_job_skills
_score_skills(resume_skills, job_skills, resume_order, remaining_order) ==
    IF job_skills = {}
    THEN [score |-> Num(100), matched_skills |-> {}, missing_skills |-> {},
          exact |-> {}, fuzzy |-> {}]
    ELSE Value({skills_result(job_skills, jl, exact, fuzzy) :
                jl \in {job_skills_lower(job_skills)},
                exact \in {exact_matches(resume_skills, job_skills)},
                fuzzy \in {fuzzy_loop(remaining_order, resume_order, {})}})

(***************************************************************************)
(* ATSScorer._score_keywords                                               *)
(***************************************************************************)
keywords_result(job_keywords, jl, matches) ==
    [score |-> min(IF jl # {}
                   THEN mul(truediv(Num(Cardinality(matches)), Num(Cardinality(jl))),
                            Num(100))
                   ELSE Num(100),
                   Num(100)),
     matched_keywords |->
         {job_kw_orig \in job_keywords : normalize(job_kw_orig) \in matches}]

_score_keywords(resume_keywords, job_keywords) ==
    IF job_keywords = {}
    THEN [score |-> Num(100), matched_keywords |-> {}]
    ELSE Value({keywords_result(job_keywords, jl, rl \cap jl) :
                rl \in {{normalize(k) : k \in resume_keywords}},
                jl \in {{normalize(k) : k \in job_keywords}}})

(***************************************************************************)
(* ATSScorer._score_experience                                             *)
(***************************************************************************)
IsDigit(c) == \E i \in 1..10 : Digits[i] = c
DigitValue(c) == (CHOOSE i \in 1..10 : Digits[i] = c) - 1

RECURSIVE int(_)
\* int() of a string of decimal digits
int(s) == IF s = <<>> THEN 0
          ELSE 10 * int(SubSeq(s, 1, Len(s) - 1)) + DigitValue(s[Len(s)])

RECURSIVE findall_years(_)
\* re.findall(r'(\d{4})', dates): the non-overlapping 4-digit groups, left to right
findall_years(dates) ==
    IF Len(dates) < 4 THEN <<>>
    ELSE IF \A i \in 1..4 : IsDigit(dates[i])
         THEN <<SubSeq(dates, 1, 4)>> \o findall_years(SubSeq(dates, 5, Len(dates)))
         ELSE findall_years(Tail(dates))

\* what one entry adds to total_years
entry_years(exp) ==
    Value({IF Len(years) >= 2
           THEN LET start_year == int(years[1])
                    end_year == IF years[2] # <<>> THEN int(years[2]) ELSE 2024
                IN  end_year - start_year
           ELSE 0 :
           years \in {findall_years(exp.dates)}})

RECURSIVE accumulate_years(_)
accumulate_years(resume_experience) ==
    IF resume_experience = <<>> THEN 0
    ELSE entry_years(Head(resume_experience)) + accumulate_years(Tail(resume_experience))

\* total_years after the "estimate 2 years per role" substitution
total_years(resume_experience) ==
    Value({IF total = 0 /\ resume_experience # <<>>
           THEN Len(resume_experience) * 2
           ELSE total :
           total \in {accumulate_years(resume_experience)}})

\* variant of _score_experience: no early return for required_years = 0
score_experience_unguarded(resume_experience, required_years) ==
    Value({IF total >= required_years THEN Num(100)
           ELSE mul(truediv(Num(total), Num(required_years)), Num(100)) :
           total \in {total_years(resume_experience)}})

\* variant of _score_experience: the ratio is returned without the cap at 100
score_experience_unclamped(resume_experience, required_years) ==
    IF required_years = 0 THEN Num(100)
    ELSE Value({mul(truediv(Num(total), Num(required_years)), Num(100)) :
                total \in {total_years(resume_experience)}})

_score_experience(resume_experience, required_years) ==
    IF required_years = 0 THEN Num(100)
    ELSE Value({IF total >= required_years THEN Num(100)
                ELSE mul(truediv(Num(total), Num(required_years)), Num(100)) :
                total \in {total_years(resume_experience)}})

(***************************************************************************)
(* ATSScorer._score_education                                              *)
(***************************************************************************)
first_two_words(s) ==
    LET w == split(s) IN IF Len(w) <= 2 THEN w ELSE SubSeq(w, 1, 2)

\* the test of one job requirement: any of its first two words occurs in
\* the resume's education text
education_hit(resume_edu_text, job_edu) ==
    \E term \in Range(first_two_words(lower(job_edu))) :
        Contains(resume_edu_text, term)

_score_education(resume_education, job_education) ==
    IF job_education = <<>> THEN Num(100)
    ELSE Value({min(IF job_education # <<>>
                    THEN mul(truediv(Num(matches), Num(Len(job_education))), Num(100))
                    ELSE Num(100),
                    Num(100)) :
                matches \in
                    {Cardinality({i \in DOMAIN job_education :
                         \E resume_edu_text \in {lower(join_space(resume_education))} :
                             education_hit(resume_edu_text, job_education[i])})}})

\* variant of compute_semantic_similarity: a failure of the estimator is not
\* caught
semantic_similarity_uncaught(resume_text, job_text, estimate) ==
    IF strip(resume_text) = <<>> \/ strip(job_text) = <<>> THEN Num(0)
    ELSE IF estimate.raises THEN ZeroDivisionError
    ELSE Rat(estimate.value, 100)

(***************************************************************************)
(* ml_model.compute_semantic_similarity.  The TF-IDF / cosine computation  *)
(* is the library's; its outcome for the two texts is the parameter        *)
(* estimate: raises is TRUE when it raises an exception, otherwise value   *)
(* is round(similarity * 100, 2) in hundredths.                            *)
(***************************************************************************)
compute_semantic_similarity(resume_text, job_text, estimate) ==
    IF strip(resume_text) = <<>> \/ strip(job_text) = <<>> THEN Num(0)
    ELSE IF estimate.raises THEN Num(0)
    ELSE Rat(estimate.value, 100)

(***************************************************************************)
(* Rationale sentences.  A sentence is recorded by the rule that emits it  *)
(* and the values its f-string interpolates: a count n and a skill list.   *)
(***************************************************************************)
Sentence(kind, n, skills) == [kind |-> kind, n |-> n, skills |-> skills]

AppendIf(cond, seq, sentence) == IF cond THEN Append(seq, sentence) ELSE seq

\* variant of _generate_strengths: the strong wording above 5 matched skills
strengths_strong_above_five(resume_data, job_data, matched_skills, matched_keywords, semantic_score) ==
    LET s1 == AppendIf(Cardinality(matched_skills) > 0, <<>>,
                       IF Cardinality(matched_skills) > 5
                       THEN Sentence("strong_skills", Cardinality(matched_skills), <<>>)
                       ELSE Sentence("some_skills", Cardinality(matched_skills), <<>>))
        s2 == AppendIf(Cardinality(matched_keywords) > 0, s1,
                       Sentence("keywords", Cardinality(matched_keywords), <<>>))
        s3 == AppendIf(LessEq(Num(70), semantic_score), s2,
                       Sentence("semantic", 0, <<>>))
        s4 == AppendIf(resume_data.experience # <<>>, s3,
                       Sentence("experience", Len(resume_data.experience), <<>>))
        s5 == AppendIf(resume_data.education # <<>>, s4,
                       Sentence("education", 0, <<>>))
    IN  IF s5 = <<>> THEN <<Sentence("fallback", 0, <<>>)>> ELSE s5

\* ATSScorer._generate_strengths
_generate_strengths(resume_data, job_data, matched_skills, matched_keywords, semantic_score) ==
    LET s1 == AppendIf(Cardinality(matched_skills) > 0, <<>>,
                       IF Cardinality(matched_skills) >= 5
                       THEN Sentence("strong_skills", Cardinality(matched_skills), <<>>)
                       ELSE Sentence("some_skills", Cardinality(matched_skills), <<>>))
        s2 == AppendIf(Cardinality(matched_keywords) > 0, s1,
                       Sentence("keywords", Cardinality(matched_keywords), <<>>))
        s3 == AppendIf(LessEq(Num(70), semantic_score), s2,
                       Sentence("semantic", 0, <<>>))
        s4 == AppendIf(resume_data.experience # <<>>, s3,
                       Sentence("experience", Len(resume_data.experience), <<>>))
        s5 == AppendIf(resume_data.education # <<>>, s4,
                       Sentence("education", 0, <<>>))
    IN  IF s5 = <<>> THEN <<Sentence("fallback", 0, <<>>)>> ELSE s5

\* variant of FirstFive: no truncation
whole_list(l) == l

\* list(s)[:5]
FirstFive(l) == IF Len(l) <= 5 THEN l ELSE SubSeq(l, 1, 5)

\* ATSScorer._generate_suggestions; missing_order is list(missing_skills)
_generate_suggestions(missing_order, job_data, resume_data, overall_score, semantic_score) ==
    LET top_missing == FirstFive(missing_order)
        s1 == AppendIf(missing_order # <<>> /\ top_missing # <<>>, <<>>,
                       Sentence("missing_skills", 0, top_missing))
        s2 == IF Less(overall_score, Num(60))
              THEN Append(s1, Sentence("low_score", 0, <<>>))
              ELSE IF Less(overall_score, Num(80))
                   THEN Append(s1, Sentence("mid_score", 0, <<>>))
                   ELSE s1
        s3 == AppendIf(Less(semantic_score, Num(60)), s2,
                       Sentence("semantic_alignment", 0, <<>>))
        required_years == job_data.experience_years
        s4 == AppendIf(required_years > 0 /\ Len(resume_data.experience) = 0, s3,
                       Sentence("experience_visibility", required_years, <<>>))
        s5 == AppendIf(Cardinality(resume_data.keywords) < 20, s4,
                       Sentence("add_keywords", 0, <<>>))
    IN  Append(s5, Sentence("formatting", 0, <<>>))

(***************************************************************************)
(* ATSScorer.calculate_score.  order gives the iteration orders of the     *)
(* sets the call iterates over: resume (resume_skills_lower), remaining    *)
(* (remaining_job_skills) and job, an order of the job's skills in which   *)
(* list(missing_skills) and list(skills_match) enumerate their elements    *)
(* (any two orders of these disjoint sets arise from some order of the     *)
(* job's skills).  The value is the returned dict, with the local          *)
(* variables of the call under "locals"; raised is TRUE when the call      *)
(* ends in an exception instead of returning.                              *)
(***************************************************************************)
W_SKILLS == 35
W_KEYWORDS == 20
W_EXPERIENCE == 15
W_EDUCATION == 10
W_SEMANTIC == 20

\* score * 0.35  etc.
weighted(score, percent) == mul(score, Rat(percent, 100))

\* variant of weighted_sum: the five components weighted equally
weighted_sum_equal(skills_score, keywords_score, experience_score, education_score, semantic_score) ==
    add(add(add(add(weighted(skills_score, 20), weighted(keywords_score, 20)),
                weighted(experience_score, 20)),
            weighted(education_score, 20)),
        weighted(semantic_score, 20))

weighted_sum(skills_score, keywords_score, experience_score, education_score, semantic_score) ==
    add(add(add(add(weighted(skills_score, W_SKILLS),
                    weighted(keywords_score, W_KEYWORDS)),
                weighted(experience_score, W_EXPERIENCE)),
            weighted(education_score, W_EDUCATION)),
        weighted(semantic_score, W_SEMANTIC))

_score_semantic(resume_text, job_text, estimate) ==
    compute_semantic_similarity(resume_text, job_text, estimate)

Raised == [raised |-> TRUE]

\* list(s) for a set s of job skills
list(s, job_order) == SelectSeq(job_order, LAMBDA x : x \in s)

\* lines 45-75: from the five component results to the returned dict
score_result(resume_data, job_data, order, sk, kw, experience_score, education_score, semantic_score) ==
    Value({IF IsError(overall_score) THEN Raised
           ELSE [raised |-> FALSE,
                 overall_score |-> round(overall_score, 1),
                 skills_score |-> round(sk.score, 1),
                 keywords_score |-> round(kw.score, 1),
                 experience_score |-> round(experience_score, 1),
                 education_score |-> round(education_score, 1),
                 semantic_score |-> round(semantic_score, 1),
                 missing_skills |-> list(sk.missing_skills, order.job),
                 matched_skills |-> list(sk.matched_skills, order.job),
                 strengths |-> _generate_strengths(resume_data, job_data,
                                   sk.matched_skills, kw.matched_keywords,
                                   semantic_score),
                 suggestions |-> _generate_suggestions(
                                     list(sk.missing_skills, order.job), job_data,
                                     resume_data, overall_score, semantic_score),
                 locals |-> [skills_score |-> sk.score,
                             keywords_score |-> kw.score,
                             experience_score |-> experience_score,
                             education_score |-> education_score,
                             semantic_score |-> semantic_score,
                             overall_score |-> overall_score,
                             exact_matches |-> sk.exact,
                             fuzzy_matches |-> sk.fuzzy,
                             skills_match |-> sk.matched_skills,
                             missing_skills |-> sk.missing_skills,
                             matched_keywords |-> kw.matched_keywords]] :
           overall_score \in {weighted_sum(sk.score, kw.score, experience_score,
                                           education_score, semantic_score)}})

calculate_score(resume_data, job_data, estimate, order) ==
    Value({score_result(resume_data, job_data, order, sk, kw, experience_score,
                        education_score, semantic_score) :
           sk \in {_score_skills(resume_data.skills, job_data.skills,
                                order.resume, order.remaining)},
           kw \in {_score_keywords(resume_data.keywords, job_data.keywords)},
           experience_score \in {_score_experience(resume_data.experience,
                                                  job_data.experience_years)},
           education_score \in {_score_education(resume_data.education,
                                                job_data.education)},
           semantic_score \in {_score_semantic(resume_data.text, job_data.full_text,
                                              estimate)}})

(***************************************************************************)
(* Input vocabulary: the strings profiles are built from.                  *)
(***************************************************************************)
SkPython == <<"P","y","t","h","o","n">>
SkPythonLower == <<"p","y","t","h","o","n">>
SkPYTHON == <<"P","Y","T","H","O","N">>
SkPythonPadded == <<" ","p","y","t","h","o","n"," ">>
SkNodeDotJs == <<"N","o","d","e",".","j","s">>
SkNodeJS == <<"N","o","d","e","J","S">>
SkReact == <<"R","e","a","c","t">>
SkReach == <<"R","e","a","c","h">>
SkJava == <<"J","a","v","a">>
SkSQL == <<"S","Q","L">>
KwAgile == <<"A","g","i","l","e">>
KwAGILE == <<"A","G","I","L","E">>
D2018to2021 == <<"2","0","1","8"," ","-"," ","2","0","2","1">>
D2021to2024 == <<"2","0","2","1"," ","-"," ","2","0","2","4">>
D2022to2019 == <<"2","0","2","2"," ","-"," ","2","0","1","9">>
D2020to2020 == <<"2","0","2","0"," ","-"," ","2","0","2","0">>
D2020toPresent == <<"2","0","2","0"," ","-"," ","P","r","e","s","e","n","t">>
DJan2019toMar2022 == <<"J","a","n"," ","2","0","1","9"," ","-"," ","M","a","r"," ","2","0","2","2">>
EduPhDinAI == <<"P","h","D"," ","i","n"," ","A","I">>
EduPhDdegree == <<"P","h","D"," ","d","e","g","r","e","e">>
TxtDeveloper == <<"P","y","t","h","o","n"," ","d","e","v">>
TxtPosting == <<"P","y","t","h","o","n"," ","j","o","b">>

ResumeSkillVocab == {SkPYTHON, SkPythonPadded, SkNodeJS, SkReach, SkSQL}
JobSkillVocab == {SkPython, SkPythonLower, SkNodeDotJs, SkReact, SkJava}
DateVocab == {D2018to2021, D2021to2024, D2022to2019, D2020to2020,
              D2020toPresent, DJan2019toMar2022}
\* estimator outcomes: it raises, or returns the value (in hundredths)
Fails == [raises |-> TRUE, value |-> 0]
Returns(hundredths) == [raises |-> FALSE, value |-> hundredths]

UpTo(V, n) == {S \in SUBSET V : Cardinality(S) <= n}

RECURSIVE SeqsUpTo(_, _)
SeqsUpTo(V, n) ==
    IF n = 0 THEN {<<>>}
    ELSE LET shorter == SeqsUpTo(V, n - 1)
         IN  shorter \cup {Append(q, v) : q \in {x \in shorter : Len(x) = n - 1}, v \in V}

\* an experience entry as resume_parser.extract_experience builds it from a
\* line that is just the date range
Entry(dates) == [dates |-> dates, description |-> dates]
EntryLists(V, n) == {[i \in DOMAIN q |-> Entry(q[i])] : q \in SeqsUpTo(V, n)}

(***************************************************************************)
(* State: the two profiles handed to the scorer, the outcome of the        *)
(* similarity estimator for their texts, and the results of the calls.     *)
(***************************************************************************)
VARIABLES resume_data, job_data, estimate, calls, result, previous

vars == <<resume_data, job_data, estimate, calls, result, previous>>
inputs == <<resume_data, job_data, estimate>>

NoResult == [raised |-> FALSE, pending |-> TRUE]

InitFrom(RS, JS, RK, JK, EX, RY, RE, JE, RT, JT, ES) ==
    /\ resume_data \in [skills : RS, keywords : RK, experience : EX,
                        education : RE, text : RT]
    /\ job_data \in [skills : JS, keywords : JK, experience_years : RY,
                     education : JE, full_text : JT]
    /\ estimate \in ES
    /\ calls = 0
    /\ result = NoResult
    /\ previous = NoResult

\* whole profiles over a small vocabulary
Init ==
    InitFrom(UpTo({SkPYTHON, SkNodeJS}, MaxSkills),
             UpTo({SkPython, SkNodeDotJs}, MaxSkills),
             UpTo({KwAGILE}, MaxSkills), UpTo({KwAgile}, MaxSkills),
             EntryLists({D2018to2021, D2022to2019}, MaxEntries),
             {0, MaxRequiredYears},
             {<<>>, <<EduPhDinAI>>}, {<<>>, <<EduPhDdegree>>},
             {TxtDeveloper}, {TxtPosting},
             {Fails, Returns(5996), Returns(10000)})

\* skill sets over the full skill vocabulary, the rest of the profiles fixed
InitSkills ==
    InitFrom(UpTo(ResumeSkillVocab, MaxSkills), UpTo(JobSkillVocab, MaxSkills),
             {{}}, {{}}, {<<>>}, {0}, {<<>>}, {<<>>},
             {TxtDeveloper}, {TxtPosting}, {Returns(7000)})

\* experience entries over the full date vocabulary, the rest fixed
InitExperience ==
    InitFrom({{}}, {{}}, {{}}, {{}},
             EntryLists(DateVocab, MaxEntries), 0..MaxRequiredYears,
             {<<>>}, {<<>>}, {TxtDeveloper}, {TxtPosting}, {Returns(7000)})

\* one call of scorer.calculate_score(resume_data, job_data)
CalculateScore ==
    /\ calls < MaxCalls
    /\ \E resume_order \in Orderings(resume_skills_lower(resume_data.skills)),
          remaining_order \in Orderings(remaining_job_skills(resume_data.skills,
                                                             job_data.skills)),
          job_order \in Orderings(job_data.skills) :
          result' = calculate_score(resume_data, job_data, estimate,
                        [resume |-> resume_order, remaining |-> remaining_order,
                         job |-> job_order])
    /\ previous' = result
    /\ calls' = calls + 1
    /\ UNCHANGED inputs

Next == CalculateScore

Spec == Init /\ [][Next]_vars
SpecSkills == InitSkills /\ [][Next]_vars
SpecExperience == InitExperience /\ [][Next]_vars

\* resume / job texts that strip() empties
TxtEmpty == <<>>
TxtBlank == <<" ", "\n", "\t">>

\* the texts and the estimator's outcome vary, small profiles otherwise
InitSemantic ==
    InitFrom(UpTo({SkPYTHON}, MaxSkills), UpTo({SkPython, SkJava}, MaxSkills),
             {{}}, UpTo({KwAgile}, MaxSkills),
             EntryLists({D2018to2021}, 1), {0, MaxRequiredYears},
             {<<>>}, {<<>>, <<EduPhDdegree>>},
             {TxtEmpty, TxtBlank, TxtDeveloper}, {TxtEmpty, TxtBlank, TxtPosting},
             {Fails, Returns(0), Returns(5996), Returns(10000)})

SpecSemantic == InitSemantic /\ [][Next]_vars

\* job skill sets with entries that differ only in case, as
\* job_parser._extract_skills collects them (skill.title() next to the item
\* as written)
InitCaseVariants ==
    InitFrom(UpTo({SkPYTHON, SkNodeJS}, MaxSkills),
             UpTo({SkPython, SkPythonLower, SkJava, SkNodeDotJs}, MaxSkills + 1),
             {{}}, {{}}, {<<>>}, {0}, {<<>>}, {<<>>},
             {TxtDeveloper}, {TxtPosting}, {Returns(7000)})

SpecCaseVariants == InitCaseVariants /\ [][Next]_vars

\* spellings of one skill that differ in case or surrounding whitespace
SkJavaLower == <<"j","a","v","a">>
SkJAVA == <<"J","A","V","A">>
SkJaVa == <<"J","a","V","a">>
SkJavaLeading == <<" ","J","a","v","a">>
SkJavaTrailing == <<"J","a","v","a"," ">>
JavaSpellings == <<SkJava, SkJavaLower, SkJAVA, SkJaVa, SkJavaLeading, SkJavaTrailing>>
FirstSpellings(n) == {JavaSpellings[i] : i \in 1..n}

\* n distinct capitalised words, KwAGILE among them
Keyword(i) == <<"K", LowerChars[i]>>
Keywords(n) == IF n = 0 THEN {} ELSE {KwAGILE} \cup {Keyword(i) : i \in 1..(n - 1)}

\* profiles at the thresholds of the strengths and suggestions rules: 0, 1,
\* 4, 5 and 6 job skills, 0, 19 and 20 resume keywords, estimates around 60
\* and 70; the larger skill sets with the rest of the profile fixed
InitRationale ==
    \/ InitFrom({{}, {SkJAVA}}, {FirstSpellings(n) : n \in {0, 1, 4}},
                {Keywords(n) : n \in {0, 19, 20}}, {{}, {KwAgile}},
                EntryLists({D2018to2021}, 1), {0, MaxRequiredYears},
                {<<>>, <<EduPhDinAI>>}, {<<>>},
                {TxtDeveloper}, {TxtPosting},
                {Returns(5996), Returns(6000), Returns(6996), Returns(7000)})
    \/ InitFrom({{}, {SkJAVA}}, {FirstSpellings(n) : n \in {5, 6}},
                {Keywords(n) : n \in {0, 20}}, {{KwAgile}},
                EntryLists({D2018to2021}, 1), {MaxRequiredYears},
                {<<EduPhDinAI>>}, {<<>>},
                {TxtDeveloper}, {TxtPosting}, {Returns(7000)})

\* the one call of calculate_score that a request makes
ScoreOnce == calls = 0 /\ CalculateScore

NextOnce == ScoreOnce

SpecRationale == InitRationale /\ [][NextOnce]_vars



(***************************************************************************)
(* resume_parser.ResumeParser.extract_experience.  A text is a sequence    *)
(* of characters with "\n" between its lines.  The regular expressions are *)
(* matched as re.search matches them: at the leftmost position where the   *)
(* pattern matches, with its alternatives tried in the order written.      *)
(* The modelled texts are ASCII: of the pattern's three dashes they hold   *)
(* the hyphen only.                                                        *)
(***************************************************************************)
\* str.split(sep) for a one-character separator, of s from position from
\* on: empty pieces are kept
RECURSIVE split_on(_, _, _)
split_on(s, sep, from) ==
    Value({IF at = {} THEN <<SubSeq(s, from, Len(s))>>
           ELSE Value({<<SubSeq(s, from, p - 1)>> \o split_on(s, sep, p + 1) :
                       p \in {CHOOSE p \in at : \A q \in at : p <= q}}) :
           at \in {{p \in from..Len(s) : s[p] = sep}}})

IsLetter(c) == \E i \in 1..26 : UpperChars[i] = c \/ LowerChars[i] = c

\* \w
IsWordChar(c) == IsLetter(c) \/ IsDigit(c) \/ c = "_"

\* \s
IsSpace(c) == c \in Whitespace

\* the position after the run of whitespace that starts at position p (\s*)
RECURSIVE skip_spaces(_, _)
skip_spaces(s, p) ==
    IF p <= Len(s) /\ IsSpace(s[p]) THEN skip_spaces(s, p + 1) ELSE p

\* s holds the literal word (given in lower case) at position p, ignoring case
LiteralAt(s, p, word) ==
    /\ p + Len(word) - 1 <= Len(s)
    /\ lower(SubSeq(s, p, p + Len(word) - 1)) = word

\* \d{4} at position p
Digits4At(s, p) == p + 3 <= Len(s) /\ \A k \in p..(p + 3) : IsDigit(s[k])

\* \w{3}\s+\d{4} at position p: the position after it, or 0
MonthYearAt(s, p) ==
    IF p + 3 <= Len(s) /\ (\A k \in p..(p + 2) : IsWordChar(s[k])) /\ IsSpace(s[p + 3])
    THEN Value({IF Digits4At(s, q) THEN q + 4 ELSE 0 : q \in {skip_spaces(s, p + 3)}})
    ELSE 0

Dashes == {"-"}

\* \s*[-]\s*(\d{4}|\w{3}\s+\d{4}|Present|Current) at position p: the
\* position after it, or 0
RangeTailAt(s, p) ==
    Value({IF q <= Len(s) /\ s[q] \in Dashes
           THEN Value({IF Digits4At(s, r) THEN r + 4
                       ELSE IF MonthYearAt(s, r) # 0 THEN MonthYearAt(s, r)
                       ELSE IF LiteralAt(s, r, <<"p","r","e","s","e","n","t">>) THEN r + 7
                       ELSE IF LiteralAt(s, r, <<"c","u","r","r","e","n","t">>) THEN r + 7
                       ELSE 0 :
                       r \in {skip_spaces(s, q + 1)}})
           ELSE 0 :
           q \in {skip_spaces(s, p)}})

\* date_pattern at position p: the position after the match, or 0
date_pattern_at(s, p) ==
    Value({IF first # 0 THEN first
           ELSE IF MonthYearAt(s, p) # 0 THEN RangeTailAt(s, MonthYearAt(s, p))
           ELSE 0 :
           first \in {IF Digits4At(s, p) THEN RangeTailAt(s, p + 4) ELSE 0}})

\* re.search(date_pattern, line, re.IGNORECASE): <<>> when there is no
\* match, otherwise <<group(0)>>
date_match(line) ==
    Value({IF starts = {} THEN <<>>
           ELSE Value({<<SubSeq(line, p, date_pattern_at(line, p) - 1)>> :
                       p \in {CHOOSE p \in starts : \A q \in starts : p <= q}}) :
           starts \in {{p \in 1..Len(line) : date_pattern_at(line, p) # 0}}})

SectionHeaders ==
    {<<"e","x","p","e","r","i","e","n","c","e">>,
     <<"e","m","p","l","o","y","m","e","n","t">>,
     <<"w","o","r","k"," ","h","i","s","t","o","r","y">>,
     <<"p","r","o","f","e","s","s","i","o","n","a","l"," ","e","x","p","e","r","i","e","n","c","e">>}

\* re.search(r'(experience|employment|work history|professional experience)',
\*           line_stripped, re.IGNORECASE)
is_section_header(line_stripped) ==
    \E low \in {lower(line_stripped)} : \E h \in SectionHeaders : Contains(low, h)

\* the loop over the lines; current_entry is <<>> (None) or <<entry>>
RECURSIVE scan_lines(_, _, _, _)
scan_lines(lines, in_experience_section, current_entry, experience) ==
    IF lines = <<>>
    THEN experience \o current_entry
    ELSE Value({
        IF is_section_header(line_stripped)
        THEN scan_lines(Tail(lines), TRUE, current_entry, experience)
        ELSE IF in_experience_section /\ line_stripped # <<>>
        THEN Value({
            IF m # <<>>
            THEN scan_lines(Tail(lines), in_experience_section,
                            <<[dates |-> m[1], description |-> line_stripped]>>,
                            experience \o current_entry)
            ELSE IF current_entry # <<>>
            THEN scan_lines(Tail(lines), in_experience_section,
                            <<[current_entry[1] EXCEPT !.description =
                                   @ \o <<" ">> \o line_stripped]>>,
                            experience)
            ELSE scan_lines(Tail(lines), in_experience_section, current_entry,
                            experience) :
            m \in {date_match(line_stripped)}})
        ELSE scan_lines(Tail(lines), in_experience_section, current_entry,
                        experience) :
        line_stripped \in {strip(Head(lines))}})

\* variant of extract_experience: the scan starts inside the experience
\* section
extract_experience_from_start(text) ==
    scan_lines(split_on(text, "\n", 1), TRUE, <<>>, <<>>)

extract_experience(text) ==
    scan_lines(split_on(text, "\n", 1), FALSE, <<>>, <<>>)

(***************************************************************************)
(* job_parser.JobDescriptionParser._extract_experience_years.  Each        *)
(* pattern is matched as re.search(pattern, text, re.IGNORECASE) matches   *)
(* it: on the text without regard to case, at the leftmost position where  *)
(* it matches, \d+ and \s* taking all they can.                            *)
(***************************************************************************)
\* the position after the run of digits that starts at position p (\d*)
RECURSIVE skip_digits(_, _)
skip_digits(s, p) ==
    IF p <= Len(s) /\ IsDigit(s[p]) THEN skip_digits(s, p + 1) ELSE p

\* the position after an optional literal at position p
skip_optional(s, p, word) == IF LiteralAt(s, p, word) THEN p + Len(word) ELSE p

\* (\d+)\s*years? at position p: <<>>, or <<the digits>>
digits_years_at(s, p) ==
    Value({IF e > p /\ LiteralAt(s, skip_spaces(s, e), <<"y","e","a","r">>)
           THEN <<SubSeq(s, p, e - 1)>> ELSE <<>> :
           e \in {skip_digits(s, p)}})

\* (\d+)\+?\s*years?\s*(?:of\s*)?(?:experience|exp) at position p: <<>>, or
\* <<the digits>>
years_experience_at(s, p) ==
    Value({IF e > p
           THEN Value({IF LiteralAt(s, y, <<"y","e","a","r">>)
                       THEN Value({IF LiteralAt(s, x, <<"e","x","p">>)
                                   THEN <<SubSeq(s, p, e - 1)>> ELSE <<>> :
                                   x \in {Value({IF LiteralAt(s, o, <<"o","f">>)
                                                 THEN skip_spaces(s, o + 2) ELSE o :
                                                 o \in {skip_spaces(s,
                                                     skip_optional(s, y + 4, <<"s">>))}})}})
                       ELSE <<>> :
                       y \in {skip_spaces(s, skip_optional(s, e, <<"+">>))}})
           ELSE <<>> :
           e \in {skip_digits(s, p)}})

\* minimum\s*(?:of\s*)?(\d+)\s*years? at position p
minimum_years_at(s, p) ==
    IF LiteralAt(s, p, <<"m","i","n","i","m","u","m">>)
    THEN Value({digits_years_at(s, IF LiteralAt(s, o, <<"o","f">>)
                                   THEN skip_spaces(s, o + 2) ELSE o) :
                o \in {skip_spaces(s, p + 7)}})
    ELSE <<>>

\* at least\s*(\d+)\s*years? at position p
at_least_years_at(s, p) ==
    IF LiteralAt(s, p, <<"a","t"," ","l","e","a","s","t">>)
    THEN digits_years_at(s, skip_spaces(s, p + 8))
    ELSE <<>>

\* re.search: group(1) of the leftmost match of a pattern, <<>> when there
\* is none; matches is the function from positions to the pattern's matches
leftmost_group(matches) ==
    Value({IF starts = {} THEN <<>>
           ELSE matches[CHOOSE p \in starts : \A q \in starts : p <= q] :
           starts \in {{p \in DOMAIN matches : matches[p] # <<>>}}})

search_years_experience(text) ==
    leftmost_group([p \in 1..Len(text) |-> years_experience_at(text, p)])
search_minimum_years(text) ==
    leftmost_group([p \in 1..Len(text) |-> minimum_years_at(text, p)])
search_at_least_years(text) ==
    leftmost_group([p \in 1..Len(text) |-> at_least_years_at(text, p)])

\* variant of _extract_experience_years: the patterns tried in reverse order
experience_years_reversed(text) ==
    Value({IF third # <<>> THEN int(third[1])
           ELSE Value({IF second # <<>> THEN int(second[1])
                       ELSE Value({IF first # <<>> THEN int(first[1]) ELSE 0 :
                                   first \in {search_years_experience(text)}}) :
                       second \in {search_minimum_years(text)}}) :
           third \in {search_at_least_years(text)}})

_extract_experience_years(text) ==
    Value({IF first # <<>> THEN int(first[1])
           ELSE Value({IF second # <<>> THEN int(second[1])
                       ELSE Value({IF third # <<>> THEN int(third[1]) ELSE 0 :
                                   third \in {search_at_least_years(text)}}) :
                       second \in {search_minimum_years(text)}}) :
           first \in {search_years_experience(text)}})

\* lines of resume texts: a section header, two date lines, a plain line, a
\* blank line, a plain line and a date line that hold a header word, the
\* header of a later section
LnHeader == <<"E","x","p","e","r","i","e","n","c","e">>
LnYears == <<"2","0","1","9","-","2","0","2","2"," ","D","e","v">>
LnMonthPresent == <<"J","a","n"," ","2","0","2","0"," ","-"," ","P","r","e","s","e","n","t">>
LnPlain == <<"B","u","i","l","t"," ","A","P","I","s">>
LnBlank == <<" ">>
LnMentions == <<"G","a","i","n","e","d"," ","e","x","p","e","r","i","e","n","c","e">>
LnYearsEmployment == <<"2","0","1","5"," ","-"," ","2","0","1","6"," ","E","m","p","l","o","y","m","e","n","t">>
LnEducation == <<"E","d","u","c","a","t","i","o","n">>
LineVocab == {LnHeader, LnYears, LnMonthPresent, LnPlain, LnBlank, LnMentions,
              LnYearsEmployment, LnEducation}

\* '\n'.join(lines)
RECURSIVE join_lines(_)
join_lines(l) ==
    IF l = <<>> THEN <<>>
    ELSE IF Len(l) = 1 THEN l[1]
    ELSE l[1] \o <<"\n">> \o join_lines(Tail(l))

\* texts of up to n lines of V
Texts(V, n) == {join_lines(q) : q \in SeqsUpTo(V, n)}

\* the texts handed to the parsers, nothing parsed or scored yet
InitTexts(RT, JT) ==
    /\ resume_data \in [text : RT]
    /\ job_data \in [full_text : JT]
    /\ estimate = Returns(7000)
    /\ calls = 0
    /\ result = NoResult
    /\ previous = NoResult

InitResumeText == InitTexts(Texts(LineVocab, MaxLines), {<<>>})

\* resume_parser.extract_experience(text), as parse calls it
ExtractExperience ==
    /\ calls = 0
    /\ result' = [raised |-> FALSE,
                  experience |-> extract_experience(resume_data.text)]
    /\ previous' = result
    /\ calls' = calls + 1
    /\ UNCHANGED inputs

NextExtractExperience == ExtractExperience

SpecExtractExperience == InitResumeText /\ [][NextExtractExperience]_vars

\* lines of job descriptions: phrases of the three patterns, of two patterns
\* at once, without a number, and a number on a line of its own
JbYearsOf == <<"5","+"," ","y","e","a","r","s"," ","o","f"," ","e","x","p","e","r","i","e","n","c","e">>
JbMinimumOf == <<"m","i","n","i","m","u","m"," ","o","f"," ","3"," ","y","e","a","r","s">>
JbAtLeast == <<"A","t"," ","l","e","a","s","t"," ","2"," ","y","e","a","r","s">>
JbYearExp == <<"1","0"," ","y","e","a","r"," ","e","x","p">>
JbZeroYears == <<"0"," ","y","e","a","r","s"," ","e","x","p","e","r","i","e","n","c","e">>
JbNoNumber == <<"y","e","a","r","s"," ","o","f"," ","e","x","p","e","r","i","e","n","c","e">>
JbMinimumExperience == <<"M","i","n","i","m","u","m"," ","4"," ","y","e","a","r","s"," ","e","x","p","e","r","i","e","n","c","e">>
JbNumber == <<"7">>
JobLineVocab == {JbYearsOf, JbMinimumOf, JbAtLeast, JbYearExp,
                 JbZeroYears, JbNoNumber, JbMinimumExperience, JbNumber}

InitJobText == InitTexts({<<>>}, Texts(JobLineVocab, MaxLines))

\* job_parser._extract_experience_years(job_description), as
\* extract_requirements calls it
ExtractExperienceYears ==
    /\ calls = 0
    /\ result' = [raised |-> FALSE,
                  experience_years |-> _extract_experience_years(job_data.full_text)]
    /\ previous' = result
    /\ calls' = calls + 1
    /\ UNCHANGED inputs

NextExperienceYears == ExtractExperienceYears

SpecExperienceYears == InitJobText /\ [][NextExperienceYears]_vars

(***************************************************************************)
(* The skill extraction of the two parsers:  ResumeParser.extract_skills   *)
(* and JobDescriptionParser._extract_skills.  The bullet character U+2022  *)
(* of the patterns is the one element Bullet of a text.                    *)
(***************************************************************************)
Bullet == "BULLET"

\* ResumeParser._get_common_skills()
_get_common_skills ==
    <<<<"P","y","t","h","o","n">>,
      <<"J","a","v","a">>,
      <<"J","a","v","a","S","c","r","i","p","t">>,
      <<"C","+","+">>,
      <<"C","#">>,
      <<"R","u","b","y">>,
      <<"G","o">>,
      <<"S","w","i","f","t">>,
      <<"K","o","t","l","i","n">>,
      <<"T","y","p","e","S","c","r","i","p","t">>,
      <<"P","H","P">>,
      <<"R">>,
      <<"M","A","T","L","A","B">>,
      <<"S","c","a","l","a">>,
      <<"P","e","r","l">>,
      <<"R","u","s","t">>,
      <<"H","T","M","L">>,
      <<"C","S","S">>,
      <<"R","e","a","c","t">>,
      <<"A","n","g","u","l","a","r">>,
      <<"V","u","e",".","j","s">>,
      <<"N","o","d","e",".","j","s">>,
      <<"E","x","p","r","e","s","s">>,
      <<"D","j","a","n","g","o">>,
      <<"F","l","a","s","k">>,
      <<"S","p","r","i","n","g">>,
      <<"A","S","P",".","N","E","T">>,
      <<"j","Q","u","e","r","y">>,
      <<"B","o","o","t","s","t","r","a","p">>,
      <<"S","A","S","S">>,
      <<"L","E","S","S">>,
      <<"S","Q","L">>,
      <<"M","y","S","Q","L">>,
      <<"P","o","s","t","g","r","e","S","Q","L">>,
      <<"M","o","n","g","o","D","B">>,
      <<"O","r","a","c","l","e">>,
      <<"S","Q","L","i","t","e">>,
      <<"R","e","d","i","s">>,
      <<"C","a","s","s","a","n","d","r","a">>,
      <<"E","l","a","s","t","i","c","s","e","a","r","c","h">>,
      <<"D","y","n","a","m","o","D","B">>,
      <<"A","W","S">>,
      <<"A","z","u","r","e">>,
      <<"G","C","P">>,
      <<"D","o","c","k","e","r">>,
      <<"K","u","b","e","r","n","e","t","e","s">>,
      <<"J","e","n","k","i","n","s">>,
      <<"C","I","/","C","D">>,
      <<"G","i","t">>,
      <<"G","i","t","H","u","b">>,
      <<"G","i","t","L","a","b">>,
      <<"T","e","r","r","a","f","o","r","m">>,
      <<"A","n","s","i","b","l","e">>,
      <<"C","h","e","f">>,
      <<"P","u","p","p","e","t">>,
      <<"M","a","c","h","i","n","e"," ","L","e","a","r","n","i","n","g">>,
      <<"D","e","e","p"," ","L","e","a","r","n","i","n","g">>,
      <<"T","e","n","s","o","r","F","l","o","w">>,
      <<"P","y","T","o","r","c","h">>,
      <<"K","e","r","a","s">>,
      <<"P","a","n","d","a","s">>,
      <<"N","u","m","P","y">>,
      <<"S","c","i","k","i","t","-","l","e","a","r","n">>,
      <<"D","a","t","a"," ","A","n","a","l","y","s","i","s">>,
      <<"S","t","a","t","i","s","t","i","c","s">>,
      <<"N","a","t","u","r","a","l"," ","L","a","n","g","u","a","g","e"," ","P","r","o","c","e","s","s","i","n","g">>,
      <<"C","o","m","p","u","t","e","r"," ","V","i","s","i","o","n">>,
      <<"L","i","n","u","x">>,
      <<"U","n","i","x">>,
      <<"W","i","n","d","o","w","s">>,
      <<"A","g","i","l","e">>,
      <<"S","c","r","u","m">>,
      <<"J","I","R","A">>,
      <<"C","o","n","f","l","u","e","n","c","e">>,
      <<"P","r","o","j","e","c","t"," ","M","a","n","a","g","e","m","e","n","t">>,
      <<"L","e","a","d","e","r","s","h","i","p">>,
      <<"C","o","m","m","u","n","i","c","a","t","i","o","n">>,
      <<"T","e","a","m","w","o","r","k">>,
      <<"P","r","o","b","l","e","m"," ","S","o","l","v","i","n","g">>,
      <<"A","n","a","l","y","t","i","c","a","l"," ","T","h","i","n","k","i","n","g">>>>

\* common_skills of JobDescriptionParser._extract_skills
common_skills ==
    <<<<"p","y","t","h","o","n">>,
      <<"j","a","v","a">>,
      <<"j","a","v","a","s","c","r","i","p","t">>,
      <<"c","+","+">>,
      <<"c","#">>,
      <<"r","u","b","y">>,
      <<"g","o">>,
      <<"s","w","i","f","t">>,
      <<"k","o","t","l","i","n">>,
      <<"t","y","p","e","s","c","r","i","p","t">>,
      <<"p","h","p">>,
      <<"r">>,
      <<"m","a","t","l","a","b">>,
      <<"s","c","a","l","a">>,
      <<"p","e","r","l">>,
      <<"r","u","s","t">>,
      <<"h","t","m","l">>,
      <<"c","s","s">>,
      <<"r","e","a","c","t">>,
      <<"a","n","g","u","l","a","r">>,
      <<"v","u","e",".","j","s">>,
      <<"n","o","d","e",".","j","s">>,
      <<"e","x","p","r","e","s","s">>,
      <<"d","j","a","n","g","o">>,
      <<"f","l","a","s","k">>,
      <<"s","p","r","i","n","g">>,
      <<"a","s","p",".","n","e","t">>,
      <<"j","q","u","e","r","y">>,
      <<"b","o","o","t","s","t","r","a","p">>,
      <<"s","a","s","s">>,
      <<"l","e","s","s">>,
      <<"s","q","l">>,
      <<"m","y","s","q","l">>,
      <<"p","o","s","t","g","r","e","s","q","l">>,
      <<"m","o","n","g","o","d","b">>,
      <<"o","r","a","c","l","e">>,
      <<"s","q","l","i","t","e">>,
      <<"r","e","d","i","s">>,
      <<"a","w","s">>,
      <<"a","z","u","r","e">>,
      <<"g","c","p">>,
      <<"d","o","c","k","e","r">>,
      <<"k","u","b","e","r","n","e","t","e","s">>,
      <<"j","e","n","k","i","n","s">>,
      <<"c","i","/","c","d">>,
      <<"g","i","t">>,
      <<"g","i","t","h","u","b">>,
      <<"g","i","t","l","a","b">>,
      <<"t","e","r","r","a","f","o","r","m">>,
      <<"a","n","s","i","b","l","e">>,
      <<"c","h","e","f">>,
      <<"p","u","p","p","e","t">>,
      <<"m","a","c","h","i","n","e"," ","l","e","a","r","n","i","n","g">>,
      <<"d","e","e","p"," ","l","e","a","r","n","i","n","g">>,
      <<"t","e","n","s","o","r","f","l","o","w">>,
      <<"p","y","t","o","r","c","h">>,
      <<"k","e","r","a","s">>,
      <<"p","a","n","d","a","s">>,
      <<"n","u","m","p","y">>,
      <<"s","c","i","k","i","t","-","l","e","a","r","n">>,
      <<"d","a","t","a"," ","a","n","a","l","y","s","i","s">>,
      <<"s","t","a","t","i","s","t","i","c","s">>,
      <<"l","i","n","u","x">>,
      <<"u","n","i","x">>,
      <<"w","i","n","d","o","w","s">>,
      <<"a","g","i","l","e">>,
      <<"s","c","r","u","m">>,
      <<"j","i","r","a">>,
      <<"c","o","n","f","l","u","e","n","c","e">>>>

UpperChar(c) ==
    IF \E i \in 1..26 : LowerChars[i] = c
    THEN UpperChars[CHOOSE i \in 1..26 : LowerChars[i] = c]
    ELSE c

\* str.title(): a letter after a letter is lower-cased, any other letter is
\* upper-cased
RECURSIVE title_from(_, _)
title_from(s, previous_is_cased) ==
    IF s = <<>> THEN <<>>
    ELSE <<IF previous_is_cased THEN LowerChar(Head(s)) ELSE UpperChar(Head(s))>>
         \o title_from(Tail(s), IsLetter(Head(s)))

title(s) == title_from(s, FALSE)

\* the resume's common skills:  skill.lower() in text_lower
found_common_skills(text_lower) ==
    {_get_common_skills[i] : i \in {i \in DOMAIN _get_common_skills :
                                       Contains(text_lower, lower(_get_common_skills[i]))}}

\* the job's common skills:  skill in text_lower, added as skill.title()
titled_common_skills(text_lower) ==
    {title(common_skills[i]) : i \in {i \in DOMAIN common_skills :
                                         Contains(text_lower, common_skills[i])}}

\* [^•\n]
IsSectionChar(s, p) == p <= Len(s) /\ s[p] # Bullet /\ s[p] # "\n"

\* the position after group 1,  ([^•\n]+(?:\n(?!•)[^•\n]+)*) , whose
\* characters up to position p - 1 are taken: the rest of the line, and
\* the lines after it that begin with a character of [^•\n]
RECURSIVE section_end(_, _)
section_end(s, p) ==
    Value({IF q <= Len(s) /\ s[q] = "\n" /\ IsSectionChar(s, q + 1)
           THEN section_end(s, q + 2)
           ELSE q :
           q \in {CHOOSE q \in p..(Len(s) + 1) :
                      /\ ~IsSectionChar(s, q)
                      /\ \A r \in p..(q - 1) : IsSectionChar(s, r)}})

\* the position after the run of [\s:] that starts at position p
RECURSIVE skip_spaces_colons(_, _)
skip_spaces_colons(s, p) ==
    IF p <= Len(s) /\ (IsSpace(s[p]) \/ s[p] = ":")
    THEN skip_spaces_colons(s, p + 1) ELSE p

\* [\s:]*(group 1) after a header that ends before position e: the longest
\* run of [\s:] is tried first and shortened until group 1 has a first
\* character; <<first, last>> of group 1, or <<>>
section_after(s, e) ==
    Value({IF starts = {} THEN <<>>
           ELSE Value({<<q, section_end(s, q) - 1>> :
                       q \in {CHOOSE q \in starts : \A r \in starts : r <= q}}) :
           starts \in {{q \in e..skip_spaces_colons(s, e) : IsSectionChar(s, q)}}})

\* a header word with an optional last letter, as  skills?
Header(word, optional) == [word |-> word, optional |-> optional]

\* one alternative of the header group at position p, then [\s:]*(group 1):
\* the optional letter is taken first and given back if nothing follows
header_at(s, p, header) ==
    IF ~LiteralAt(s, p, header.word) THEN <<>>
    ELSE Value({IF long # <<>> THEN long
                ELSE section_after(s, p + Len(header.word)) :
                long \in {section_after(s, skip_optional(s, p + Len(header.word),
                                                         header.optional))}})

\* the alternatives of the header group at position p, in their order
RECURSIVE headers_at(_, _, _)
headers_at(s, p, headers) ==
    IF headers = <<>> THEN <<>>
    ELSE Value({IF m # <<>> THEN m ELSE headers_at(s, p, Tail(headers)) :
                m \in {header_at(s, p, Head(headers))}})

\* the leftmost match from position from on: <<first, last>> of group 1,
\* or <<>>
search_section(s, headers, from) ==
    Value({IF starts = {} THEN <<>>
           ELSE headers_at(s, CHOOSE p \in starts : \A q \in starts : p <= q, headers) :
           starts \in {{p \in from..Len(s) : headers_at(s, p, headers) # <<>>}}})

\* re.finditer: group 1 of the successive matches, each searched from the
\* end of the one before
RECURSIVE finditer_sections(_, _, _)
finditer_sections(s, headers, from) ==
    Value({IF m = <<>> THEN <<>>
           ELSE <<SubSeq(s, m[1], m[2])>> \o finditer_sections(s, headers, m[2] + 1) :
           m \in {search_section(s, headers, from)}})

\* the stripped items of skills_text.split(delimiter) of a length between
\* 3 and 49
split_items(skills_text, delimiter) ==
    {item \in {strip(piece) : piece \in Range(split_on(skills_text, delimiter, 1))} :
        Len(item) > 2 /\ Len(item) < 50}

\* skills?|technical skills?|competencies?
ResumeSkillsHeaders ==
    <<Header(<<"s","k","i","l","l">>, <<"s">>), Header(<<"t","e","c","h","n","i","c","a","l"," ","s","k","i","l","l">>, <<"s">>), Header(<<"c","o","m","p","e","t","e","n","c","i","e">>, <<"s">>)>>

ResumeDelimiters == {",", ";", "|", "\n", "/"}

\* the items of the skills section of a resume
resume_section_skills(text) ==
    Value({IF m = <<>> THEN {}
           ELSE UNION {split_items(SubSeq(text, m[1], m[2]), delimiter) :
                       delimiter \in {d \in ResumeDelimiters :
                                         Contains(SubSeq(text, m[1], m[2]), <<d>>)}} :
           m \in {search_section(text, ResumeSkillsHeaders, 1)}})

extract_skills(text) ==
    found_common_skills(lower(text)) \cup resume_section_skills(text)

IsUpper(c) == \E i \in 1..26 : UpperChars[i] = c

\* the position after the run of letters that starts at position p
RECURSIVE skip_letters(_, _)
skip_letters(s, p) ==
    IF p <= Len(s) /\ IsLetter(s[p]) THEN skip_letters(s, p + 1) ELSE p

\* \b at position p, between the characters p - 1 and p
IsBoundary(s, p) ==
    (p > 1 /\ IsWordChar(s[p - 1])) # (p <= Len(s) /\ IsWordChar(s[p]))

\* the longest end of  [A-Z][a-zA-Z]*(?:\s+[A-Z][a-zA-Z]*)*\b  for words
\* taken up to position e - 1 with best the last end at a boundary (0: none)
RECURSIVE capitalized_end(_, _, _)
capitalized_end(s, e, best) ==
    Value({IF n > e /\ n <= Len(s) /\ IsUpper(s[n])
           THEN capitalized_end(s, skip_letters(s, n), here)
           ELSE here :
           n \in {skip_spaces(s, e)},
           here \in {IF IsBoundary(s, e) THEN e ELSE best}})

\* the pattern at position p: the position after the match, or 0
capitalized_at(s, p) ==
    IF IsUpper(s[p]) /\ IsBoundary(s, p)
    THEN capitalized_end(s, skip_letters(s, p), 0)
    ELSE 0

\* re.findall of the capitalized terms from position from on: the leftmost
\* match, then the matches after its end
RECURSIVE findall_capitalized(_, _)
findall_capitalized(s, from) ==
    Value({IF starts = {} THEN <<>>
           ELSE Value({<<SubSeq(s, p, capitalized_at(s, p) - 1)>>
                       \o findall_capitalized(s, capitalized_at(s, p)) :
                       p \in {CHOOSE p \in starts : \A q \in starts : p <= q}}) :
           starts \in {{p \in from..Len(s) : capitalized_at(s, p) # 0}}})

JobDelimiters == {",", ";", "|", "\n", "/", Bullet, "-"}

\* what one match of a skills pattern adds to the job's skills
job_section_skills(skills_text) ==
    {term \in Range(findall_capitalized(skills_text, 1)) : Len(term) > 2}
    \cup UNION {split_items(skills_text, delimiter) : delimiter \in JobDelimiters}

\* required skills?|technical skills?|skills required|qualifications?  and
\* must have|required
JobSkillsHeaders ==
    <<Header(<<"r","e","q","u","i","r","e","d"," ","s","k","i","l","l">>, <<"s">>), Header(<<"t","e","c","h","n","i","c","a","l"," ","s","k","i","l","l">>, <<"s">>),
      Header(<<"s","k","i","l","l","s"," ","r","e","q","u","i","r","e","d">>, <<>>), Header(<<"q","u","a","l","i","f","i","c","a","t","i","o","n">>, <<"s">>)>>
MustHaveHeaders == <<Header(<<"m","u","s","t"," ","h","a","v","e">>, <<>>), Header(<<"r","e","q","u","i","r","e","d">>, <<>>)>>

_extract_skills(text) ==
    titled_common_skills(lower(text))
    \cup UNION {job_section_skills(skills_text) :
                skills_text \in Range(finditer_sections(text, JobSkillsHeaders, 1))}
    \cup UNION {job_section_skills(skills_text) :
                skills_text \in Range(finditer_sections(text, MustHaveHeaders, 1))}

\* the two texts of the end-to-end scenario, and other resumes and job
\* descriptions: with and without a skills header, an experience header, a
\* date range, a number of years
TxResume == <<"S","k","i","l","l","e","d"," ","i","n"," ","P","y","t","h","o","n",","," ","S","Q","L",","," ","2","0","1","9"," ","-"," ","2","0","2","2"," ","S","o","f","t","w","a","r","e"," ","E","n","g","i","n","e","e","r">>
TxJob == <<"R","e","q","u","i","r","e","d"," ","s","k","i","l","l","s",":"," ","P","y","t","h","o","n",","," ","J","a","v","a","."," ","M","i","n","i","m","u","m"," ","3"," ","y","e","a","r","s"," ","e","x","p","e","r","i","e","n","c","e","."," ","B","a","c","h","e","l","o","r","'","s"," ","d","e","g","r","e","e"," ","r","e","q","u","i","r","e","d",".">>
TxResumeSections == <<"S","k","i","l","l","s",":"," ","P","y","t","h","o","n","\n","E","x","p","e","r","i","e","n","c","e","\n","2","0","1","9"," ","-"," ","2","0","2","2"," ","D","e","v">>
TxResumeSkillsLine == <<"S","k","i","l","l","s",":"," ","P","y","t","h","o","n",","," ","J","a","v","a">>
TxResumePython == <<"P","y","t","h","o","n">>
TxResumeExperience == <<"E","x","p","e","r","i","e","n","c","e","\n","2","0","1","8"," ","-"," ","2","0","2","1"," ","J","a","v","a">>
TxResumeTechnical == <<"T","e","c","h","n","i","c","a","l"," ","S","k","i","l","l","s","\n","D","o","c","k","e","r","/","A","W","S">>
TxResumeCompetencies == <<"C","o","r","e"," ","c","o","m","p","e","t","e","n","c","i","e","s",":"," ","S","Q","L",";"," ","G","i","t">>
TxJobMustHave == <<"M","u","s","t"," ","h","a","v","e",":"," ","J","a","v","a",","," ","S","Q","L">>
TxJobPlain == <<"3","+"," ","y","e","a","r","s"," ","o","f"," ","e","x","p","e","r","i","e","n","c","e"," ","i","n"," ","J","a","v","a">>
TxJobSkillsRequired == <<"S","k","i","l","l","s"," ","r","e","q","u","i","r","e","d",":"," ","D","o","c","k","e","r"," ","-"," ","A","W","S">>
TxJobQualifications == <<"Q","u","a","l","i","f","i","c","a","t","i","o","n","s","\n","N","o","d","e"," ","J","S","\n","A","t"," ","l","e","a","s","t"," ","2"," ","y","e","a","r","s">>
TxJobTwoSections == <<"R","e","q","u","i","r","e","d"," ","s","k","i","l","l","s",":"," ","P","y","t","h","o","n","\n","\n","R","e","q","u","i","r","e","d",":"," ","J","a","v","a">>
TxJobBullet == <<"T","e","c","h","n","i","c","a","l"," ","s","k","i","l","l","s",":","\n",Bullet,"P","y","t","h","o","n","\n",Bullet,"J","a","v","a">>
ResumeTextVocab ==
    {<<>>, TxResume, TxResumeSections, TxResumeSkillsLine, TxResumePython,
     TxResumeExperience, TxResumeTechnical, TxResumeCompetencies}
JobTextVocab ==
    {<<>>, TxJob, TxJobMustHave, TxJobPlain, TxJobSkillsRequired,
     TxJobQualifications, TxJobTwoSections, TxJobBullet}

InitEndToEnd == InitTexts(ResumeTextVocab, JobTextVocab)

\* the skills and the experience that parse and extract_requirements take
\* from the two texts, and the scores _score_skills and _score_experience
\* give them in calculate_score
ScoreExtracted ==
    /\ calls = 0
    /\ \E resume_skills \in {extract_skills(resume_data.text)},
          job_skills \in {_extract_skills(job_data.full_text)},
          experience \in {extract_experience(resume_data.text)},
          experience_years \in {_extract_experience_years(job_data.full_text)} :
          \E resume_order \in Orderings(resume_skills_lower(resume_skills)),
             remaining_order \in Orderings(remaining_job_skills(resume_skills,
                                                                job_skills)) :
              result' = [raised |-> FALSE,
                         resume_skills |-> resume_skills,
                         job_skills |-> job_skills,
                         experience |-> experience,
                         experience_years |-> experience_years,
                         skills |-> _score_skills(resume_skills, job_skills,
                                                  resume_order, remaining_order),
                         experience_score |-> _score_experience(experience,
                                                                experience_years)]
    /\ previous' = result
    /\ calls' = calls + 1
    /\ UNCHANGED inputs

NextEndToEnd == ScoreExtracted

SpecEndToEnd == InitEndToEnd /\ [][NextEndToEnd]_vars

\* profiles whose overall score lies at the two band limits 60 and 80: each
\* component is 0 or 100 (experience also 60), and the estimate brings the
\* weighted sum just below a limit or onto it
InitBands ==
    InitFrom({{}, {SkJAVA}}, {{SkJava}},
             {{}, {KwAGILE}}, {{KwAgile}},
             EntryLists({D2018to2021}, 1), {0, MaxRequiredYears},
             {<<>>, <<EduPhDinAI>>}, {<<>>, <<EduPhDdegree>>},
             {TxtDeveloper}, {TxtPosting},
             {Fails, Returns(2498), Returns(2500), Returns(4998), Returns(5000)})

SpecBands == InitBands /\ [][NextOnce]_vars

(***************************************************************************)
(* Properties.  They are stated over the value a call returned (result),   *)
(* the value of the call before it (previous) and the inputs, with their   *)
(* own arithmetic, so that the scorer's operators are what they test.      *)
(***************************************************************************)
Returned == calls >= 1 /\ ~result.raised

InRange(x) == LessEq(Num(0), x) /\ LessEq(x, Num(100))

\* lowercase-trimmed form of a skill
TrimLower(s) == lower(strip(s))

matchedSkills == Range(result.matched_skills)
missingSkills == Range(result.missing_skills)

\* C1: matchedSkills and missingSkills are disjoint and their union is the
\* job's skill set, in the job's original casing.
C1_Partition ==
    Returned =>
        /\ matchedSkills \cap missingSkills = {}
        /\ matchedSkills \cup missingSkills = job_data.skills
        /\ Len(result.matched_skills) + Len(result.missing_skills)
               = Cardinality(job_data.skills)

C1_Witness ==
    /\ Returned
    /\ matchedSkills # {}
    /\ missingSkills # {}
    /\ \E j \in matchedSkills : j # TrimLower(j)

\* C2: every component score and the overall score returned by
\* calculate_score lies in [0,100]; the experience score is never negative
\* and never above 100.
C2_ScoresInRange ==
    Returned =>
        /\ InRange(result.overall_score)
        /\ InRange(result.skills_score)
        /\ InRange(result.keywords_score)
        /\ InRange(result.experience_score)
        /\ InRange(result.education_score)
        /\ InRange(result.semantic_score)
        /\ InRange(result.locals.experience_score)

\* C3: an empty job skill set gives skill score 100 and empty
\* matchedSkills and missingSkills, whatever the resume's skills.
C3_EmptyJobSkills ==
    (Returned /\ job_data.skills = {}) =>
        /\ result.skills_score = Num(100)
        /\ result.locals.skills_score = Num(100)
        /\ result.matched_skills = <<>>
        /\ result.missing_skills = <<>>

C3_Witness ==
    /\ Returned
    /\ job_data.skills = {}
    /\ resume_data.skills # {}
    /\ result.skills_score = Num(100)

\* C4: zero required years gives experience score 100, no education
\* requirement gives education score 100, no job keyword gives keyword
\* score 100, and no call ends in a division by zero.
C4_VacuousMatch ==
    calls >= 1 =>
        /\ ~result.raised
        /\ job_data.experience_years = 0 => result.experience_score = Num(100)
        /\ job_data.education = <<>> => result.education_score = Num(100)
        /\ job_data.keywords = {} => result.keywords_score = Num(100)

C4_Witness ==
    /\ Returned
    /\ job_data.experience_years = 0
    /\ job_data.education = <<>>
    /\ job_data.keywords = {}
    /\ resume_data.experience # <<>>
    /\ resume_data.keywords # {}
    /\ resume_data.education # <<>>
    /\ result.experience_score = Num(100)

\* 0.35*skills + 0.20*keywords + 0.15*experience + 0.10*education + 0.20*semantic
\* as one fraction over the common denominator
ClaimedSum(l) ==
    LET d == 100 * l.skills_score[2] * l.keywords_score[2] * l.experience_score[2]
                 * l.education_score[2] * l.semantic_score[2]
        part(w, x) == w * x[1] * (d \div (100 * x[2]))
    IN  <<part(35, l.skills_score) + part(20, l.keywords_score)
          + part(15, l.experience_score) + part(10, l.education_score)
          + part(20, l.semantic_score), d>>

SameNumber(x, y) == x[1] * y[2] = y[1] * x[2]

AllComponents(l, v) ==
    /\ l.skills_score = Num(v)
    /\ l.keywords_score = Num(v)
    /\ l.experience_score = Num(v)
    /\ l.education_score = Num(v)
    /\ l.semantic_score = Num(v)

\* C5: the overall score is the weighted sum of the unrounded component
\* scores with weights 0.35, 0.20, 0.15, 0.10, 0.20 (which sum to 1),
\* reported rounded to one decimal and not clamped; all components 100
\* give 100, all components 0 give 0.
C5_WeightedSum ==
    Returned =>
        /\ W_SKILLS + W_KEYWORDS + W_EXPERIENCE + W_EDUCATION + W_SEMANTIC = 100
        /\ SameNumber(result.locals.overall_score, ClaimedSum(result.locals))
        /\ result.overall_score = round(ClaimedSum(result.locals), 1)
        /\ AllComponents(result.locals, 100) => result.overall_score = Num(100)
        /\ AllComponents(result.locals, 0) => result.overall_score = Num(0)

C5_Witness ==
    /\ Returned
    /\ result.locals.skills_score = Num(50)
    /\ result.locals.experience_score = Num(60)
    /\ result.locals.semantic_score = <<1499, 25>>
    /\ result.locals.keywords_score = Num(0)
    /\ result.overall_score # result.locals.overall_score

\* C6: a job skill whose lowercase-trimmed form equals that of a resume
\* skill is in matchedSkills and is counted as an exact match in the score.
C6_CaseInsensitive ==
    Returned =>
        /\ \A j \in job_data.skills :
               (\E r \in resume_data.skills : TrimLower(r) = TrimLower(j)) =>
                   /\ j \in matchedSkills
                   /\ TrimLower(j) \in result.locals.exact_matches
        /\ job_data.skills # {} =>
               SameNumber(result.locals.skills_score,
                          <<100 * (Cardinality(result.locals.exact_matches)
                                   + Cardinality(result.locals.fuzzy_matches)),
                            Cardinality({TrimLower(j) : j \in job_data.skills})>>)

C6_Witness ==
    /\ Returned
    /\ SkPYTHON \in resume_data.skills
    /\ SkPython \in job_data.skills
    /\ SkPython \in matchedSkills
    /\ TrimLower(SkPython) \in result.locals.exact_matches

\* sequence-similarity ratio strictly above 0.80
RatioAbove80(a, b) == \E q \in {ratio(a, b)} : 10 * q[1] > 8 * q[2]

\* C7: a job skill that is not exactly matched is in matchedSkills iff some
\* resume skill has a similarity ratio strictly above 0.80 with it, in
\* whatever order the resume skills are scanned; "Node.js" with "NodeJS"
\* is such a match and a ratio of exactly 0.80 ("React", "Reach") is not.
C7_FuzzyThreshold ==
    Returned =>
        /\ \A j \in job_data.skills :
               TrimLower(j) \notin result.locals.exact_matches =>
                   (j \in matchedSkills <=>
                        \E r \in resume_data.skills :
                            RatioAbove80(TrimLower(j), TrimLower(r)))
        /\ (SkNodeDotJs \in job_data.skills /\ SkNodeJS \in resume_data.skills)
               => SkNodeDotJs \in matchedSkills
        /\ (SkReact \in job_data.skills /\ resume_data.skills = {SkReach})
               => SkReact \in missingSkills

C7_Witness ==
    /\ Returned
    /\ job_data.skills = {SkNodeDotJs, SkReact}
    /\ resume_data.skills = {SkReach, SkNodeJS}
    /\ matchedSkills = {SkNodeDotJs}
    /\ missingSkills = {SkReact}
    /\ result.locals.exact_matches = {}

RECURSIVE SumYearDiffs(_)
\* over the entries whose date range holds two 4-digit years:
\* second year - first year, summed
SumYearDiffs(entries) ==
    IF entries = <<>> THEN 0
    ELSE (LET y == findall_years(Head(entries).dates)
          IN  IF Len(y) >= 2 THEN int(y[2]) - int(y[1]) ELSE 0)
         + SumYearDiffs(Tail(entries))

ScoreFor(years, required) ==
    IF years >= required THEN Num(100) ELSE Rat(100 * years, required)

YearsCounted(entries) ==
    IF SumYearDiffs(entries) = 0 /\ entries # <<>>
    THEN 2 * Len(entries)
    ELSE SumYearDiffs(entries)

C9_EmptyResumeSkills ==
    (Returned /\ resume_data.skills = {} /\ job_data.skills # {}) =>
        /\ result.skills_score = Num(0)
        /\ result.locals.skills_score = Num(0)
        /\ matchedSkills = {}
        /\ missingSkills = job_data.skills

C9_Witness ==
    /\ Returned
    /\ resume_data.skills = {}
    /\ Cardinality(job_data.skills) = MaxSkills
    /\ missingSkills = job_data.skills
    /\ result.skills_score = Num(0)

SameScores(a, b) ==
    /\ a.overall_score = b.overall_score
    /\ a.skills_score = b.skills_score
    /\ a.keywords_score = b.keywords_score
    /\ a.experience_score = b.experience_score
    /\ a.education_score = b.education_score
    /\ a.semantic_score = b.semantic_score

SameSkillSets(a, b) ==
    /\ Range(a.matched_skills) = Range(b.matched_skills)
    /\ Range(a.missing_skills) = Range(b.missing_skills)

\* C10 as claimed: a second call on the same inputs returns the same six
\* scores, the same matched / missing sets and the same strengths and
\* suggestions sequences.
C10_AsClaimed ==
    (calls >= 2 /\ ~result.raised /\ ~previous.raised) =>
        /\ SameScores(result, previous)
        /\ SameSkillSets(result, previous)
        /\ result.strengths = previous.strengths
        /\ result.suggestions = previous.suggestions

\* the same sentences, the missing skills named in the missing-skills
\* sentence compared as a set (when more than five are missing the
\* sentence names five of them)
SameSuggestions(a, b) ==
    /\ Len(a.suggestions) = Len(b.suggestions)
    /\ \A i \in 1..Len(a.suggestions) :
           LET x == a.suggestions[i]
               y == b.suggestions[i]
           IN  /\ x.kind = y.kind
               /\ x.n = y.n
               /\ Len(x.skills) = Len(y.skills)
               /\ Range(x.skills) \subseteq Range(a.missing_skills)
               /\ Len(a.missing_skills) <= 5 => Range(x.skills) = Range(y.skills)

\* C10 (amended): a call leaves its inputs unmodified, and a repeated call
\* on the same inputs returns the same six scores, the same matched /
\* missing sets, the same strengths sequence and the same suggestions
\* sentence by sentence, up to the order in which the missing-skills
\* sentence names the missing skills.
C10_Deterministic ==
    [][calls' = calls + 1 =>
           /\ inputs' = inputs
           /\ ~result'.raised
           /\ calls >= 1 =>
                  /\ SameScores(result', result)
                  /\ SameSkillSets(result', result)
                  /\ result'.strengths = result.strengths
                  /\ SameSuggestions(result', result)]_vars

C10_Witness ==
    /\ calls >= 2
    /\ ~result.raised
    /\ Len(result.missing_skills) >= 2
    /\ result.missing_skills # previous.missing_skills
    /\ result.suggestions # previous.suggestions
    /\ SameSuggestions(result, previous)
    /\ SameScores(result, previous)

\* the cases in which the semantic component degrades
Degraded ==
    \/ strip(resume_data.text) = <<>>
    \/ strip(job_data.full_text) = <<>>
    \/ estimate.raises

ResultFields ==
    {"overall_score", "skills_score", "keywords_score", "experience_score",
     "education_score", "semantic_score", "missing_skills", "matched_skills",
     "strengths", "suggestions"}

SameFourScores(a, b) ==
    /\ a.skills_score = b.skills_score
    /\ a.keywords_score = b.keywords_score
    /\ a.experience_score = b.experience_score
    /\ a.education_score = b.education_score

\* the result of the same call had both texts been non-empty and the
\* estimator returned 70.0
WithEstimate ==
    calculate_score([resume_data EXCEPT !.text = TxtDeveloper],
                    [job_data EXCEPT !.full_text = TxtPosting], Returns(7000),
                    [resume |-> Value(Orderings(resume_skills_lower(resume_data.skills))),
                     remaining |-> Value(Orderings(remaining_job_skills(
                                       resume_data.skills, job_data.skills))),
                     job |-> Value(Orderings(job_data.skills))])

\* C12: when either text is empty or blank, or the similarity estimator
\* fails, the call still returns a complete result, its semantic score is 0
\* and its other four component scores are those of the same call with a
\* successful estimator.
C12_SemanticNeverAborts ==
    (calls >= 1 /\ Degraded) =>
        /\ ~result.raised
        /\ ResultFields \subseteq DOMAIN result
        /\ result.semantic_score = Num(0)
        /\ result.locals.semantic_score = Num(0)
        /\ ~WithEstimate.raised
        /\ SameFourScores(result, WithEstimate)

C12_Witness ==
    /\ Returned
    /\ estimate.raises
    /\ strip(resume_data.text) # <<>>
    /\ strip(job_data.full_text) # <<>>
    /\ result.semantic_score = Num(0)
    /\ result.skills_score = Num(50)
    /\ WithEstimate.semantic_score = Num(70)

\* the lines of the resume text, stripped
ResumeLines ==
    LET lines == split_on(resume_data.text, "\n", 1)
    IN  [i \in DOMAIN lines |-> strip(lines[i])]

AllSpaces(w) == \A i \in DOMAIN w : w[i] \in Whitespace

IsYear(w) == Len(w) = 4 /\ \A i \in 1..4 : IsDigit(w[i])

\* three word characters, whitespace, a year
IsMonthYear(w) ==
    /\ Len(w) >= 8
    /\ \A i \in 1..3 : IsLetter(w[i]) \/ IsDigit(w[i]) \/ w[i] = "_"
    /\ AllSpaces(SubSeq(w, 4, Len(w) - 4))
    /\ IsYear(SubSeq(w, Len(w) - 3, Len(w)))

IsOpenEnd(w) ==
    lower(w) \in {<<"p","r","e","s","e","n","t">>, <<"c","u","r","r","e","n","t">>}

\* w holds a date range: YEAR or MonYear, a dash, YEAR, MonYear, Present or
\* Current, with optional whitespace around the dash
HoldsDateRange(w) ==
    \E d \in {k \in DOMAIN w : w[k] = "-"} :
        /\ \E a \in 1..(d - 1) :
               /\ AllSpaces(SubSeq(w, a + 1, d - 1))
               /\ \E i \in 1..a :
                      IsYear(SubSeq(w, i, a)) \/ IsMonthYear(SubSeq(w, i, a))
        /\ \E b \in (d + 1)..Len(w) :
               /\ AllSpaces(SubSeq(w, d + 1, b - 1))
               /\ \E j \in b..Len(w) :
                      \/ IsYear(SubSeq(w, b, j))
                      \/ IsMonthYear(SubSeq(w, b, j))
                      \/ IsOpenEnd(SubSeq(w, b, j))

HoldsHeader(w) ==
    \E h \in {<<"e","x","p","e","r","i","e","n","c","e">>,
              <<"e","m","p","l","o","y","m","e","n","t">>,
              <<"w","o","r","k"," ","h","i","s","t","o","r","y">>} :
        Contains(lower(w), h)

\* the indices of the lines after the first header line
AfterHeader ==
    {i \in DOMAIN ResumeLines : \E h \in 1..(i - 1) : HoldsHeader(ResumeLines[h])}

\* the indices in S, ascending
Ascending(S) == SelectSeq([i \in DOMAIN ResumeLines |-> i], LAMBDA i : i \in S)

IsPrefix(p, s) == Len(p) <= Len(s) /\ SubSeq(s, 1, Len(p)) = p

Extracted == calls >= 1 /\ "experience" \in DOMAIN result

\* C13: once a header line has been seen, every later non-empty line that
\* holds a date range starts an entry: the returned list has exactly one
\* entry per such line, in document order, the last one included.
C13_EntryPerDateLine ==
    Extracted =>
        LET opening == Ascending({i \in AfterHeader : HoldsDateRange(ResumeLines[i])})
        IN  /\ Len(result.experience) = Len(opening)
            /\ \A k \in DOMAIN opening :
                   /\ IsPrefix(ResumeLines[opening[k]], result.experience[k].description)
                   /\ Contains(ResumeLines[opening[k]], result.experience[k].dates)

\* the lines that open the returned entries: date lines after the header
\* that are not taken for a header themselves
OpeningLines ==
    Ascending({i \in AfterHeader :
                  HoldsDateRange(ResumeLines[i]) /\ ~HoldsHeader(ResumeLines[i])})

\* the lines from..to that are not empty and hold no date range, in order
PlainLines(from, to) ==
    SelectSeq([k \in 1..(to - from + 1) |-> ResumeLines[from + k - 1]],
              LAMBDA l : l # <<>> /\ ~HoldsDateRange(l))

\* C14: every non-empty line after an entry's date line that holds no date
\* range is appended, in order, to that entry's description, up to the next
\* date line; none is dropped, none goes to another entry.
C14_LinesAppended ==
    (Extracted /\ Len(result.experience) = Len(OpeningLines)) =>
        \A k \in DOMAIN OpeningLines :
            LET from == OpeningLines[k]
                to == IF k < Len(OpeningLines) THEN OpeningLines[k + 1] - 1
                      ELSE Len(ResumeLines)
            IN  result.experience[k].description =
                    join_space(<<ResumeLines[from]>> \o PlainLines(from + 1, to))

\* the two texts of the end-to-end scenario have been extracted and scored
ScenarioScored ==
    /\ calls >= 1
    /\ "skills" \in DOMAIN result
    /\ resume_data.text = TxResume
    /\ job_data.full_text = TxJob

\* C11: for the resume text "Skilled in Python, SQL, 2019 - 2022 Software
\* Engineer" and the job text "Required skills: Python, Java. Minimum 3
\* years experience. Bachelor's degree required.", extraction and scoring
\* give the skills score 50 (1 of 2 job skills matched), the missing skills
\* {"Java"} and the experience score 100 (3 years for 3 required).
C11_EndToEnd ==
    ScenarioScored =>
        /\ SameNumber(result.skills.score, <<50, 1>>)
        /\ result.skills.missing_skills = {SkJava}
        /\ SameNumber(result.experience_score, <<100, 1>>)

\* t holds word at position p
Holds(t, p, word) ==
    p + Len(word) - 1 <= Len(t) /\ SubSeq(t, p, p + Len(word) - 1) = word

\* positions p..q-1 of t are whitespace (none when q = p)
Gap(t, p, q) == \A k \in p..(q - 1) : t[k] \in Whitespace

\* the maximal runs of digits of t, as <<first, last>>
Numbers(t) ==
    {<<i, CHOOSE j \in i..Len(t) :
              /\ \A k \in i..j : IsDigit(t[k])
              /\ j = Len(t) \/ ~IsDigit(t[j + 1])>> :
        i \in {i \in DOMAIN t : IsDigit(t[i]) /\ (i = 1 \/ ~IsDigit(t[i - 1]))}}

\* the positions from p on at which something can follow a gap that starts at p
After(t, p) == {q \in p..(Len(t) + 1) : Gap(t, p, q)}

\* "N(+) years (of) experience": the number n is followed by an optional
\* "+", "year", an optional "s", an optional "of" and "exp"
YearsOfExperience(t, n) ==
    \E a \in {n[2] + 1, n[2] + 2} :
        /\ a = n[2] + 2 => Holds(t, n[2] + 1, <<"+">>)
        /\ \E y \in After(t, a) :
               /\ Holds(t, y, <<"y","e","a","r">>)
               /\ \E b \in {y + 4, y + 5} :
                      /\ b = y + 5 => Holds(t, y + 4, <<"s">>)
                      /\ \E x \in After(t, b) :
                             \/ Holds(t, x, <<"e","x","p">>)
                             \/ /\ Holds(t, x, <<"o","f">>)
                                /\ \E z \in After(t, x + 2) : Holds(t, z, <<"e","x","p">>)

\* the number n is followed by "year"
NumberOfYears(t, n) == \E y \in After(t, n[2] + 1) : Holds(t, y, <<"y","e","a","r">>)

\* the number n, followed by "year", comes after lead and, if ofToo, an
\* optional "of"
LedBy(t, lead, ofToo, n) ==
    /\ NumberOfYears(t, n)
    /\ \E p \in 1..(n[1] - Len(lead)) :
           /\ Holds(t, p, lead)
           /\ \E o \in After(t, p + Len(lead)) :
                  \/ o = n[1]
                  \/ ofToo /\ Holds(t, o, <<"o","f">>) /\ n[1] \in After(t, o + 2)

\* the value of the leftmost of a set of numbers of t
Leftmost(t, S) ==
    LET n == CHOOSE n \in S : \A m \in S : n[1] <= m[1]
    IN  int(SubSeq(t, n[1], n[2]))

YearsExtracted == calls >= 1 /\ "experience_years" \in DOMAIN result

\* what the pattern order gives for the lower-cased job description t
FirstPatternInOrder(t) ==
    \E first \in {{n \in Numbers(t) : YearsOfExperience(t, n)}} :
        IF first # {} THEN result.experience_years = Leftmost(t, first)
        ELSE \E second \in {{n \in Numbers(t) : LedBy(t, <<"m","i","n","i","m","u","m">>, TRUE, n)}} :
            IF second # {} THEN result.experience_years = Leftmost(t, second)
            ELSE \E third \in {{n \in Numbers(t) : LedBy(t, <<"a","t"," ","l","e","a","s","t">>, FALSE, n)}} :
                IF third # {} THEN result.experience_years = Leftmost(t, third)
                ELSE result.experience_years = 0

\* C15: the three patterns are tried in the fixed order "N(+) years (of)
\* experience", "minimum (of) N years", "at least N years"; the result is
\* the integer of the first pattern in that order that matches anywhere in
\* the text, whichever phrase comes first in the text; it is 0 only if no
\* pattern matches or the matched integer is 0, and never negative.
C15_PatternOrder ==
    YearsExtracted =>
        /\ \E t \in {lower(job_data.full_text)} : FirstPatternInOrder(t)
        /\ result.experience_years >= 0

\* "At least 2 years" comes first in the text, "5+ years of experience"
\* after it: the result is 5
C15_Witness ==
    /\ YearsExtracted
    /\ job_data.full_text = join_lines(<<JbAtLeast, JbYearsOf>>)
    /\ result.experience_years = 5

\* an entry whose date range holds two 4-digit years
YieldsYears(entry) == Len(findall_years(entry.dates)) >= 2

\* C16: with R > 0, 2 years per entry are counted exactly when the resume
\* has entries and none of them yields extractable years; if any entry
\* yields years, the accumulated sum of year differences is used unchanged.
C16_EstimateOnlyWithoutYears ==
    (Returned /\ job_data.experience_years > 0) =>
        LET entries == resume_data.experience
            counted == IF entries # <<>>
                          /\ \A i \in DOMAIN entries : ~YieldsYears(entries[i])
                       THEN 2 * Len(entries)
                       ELSE SumYearDiffs(entries)
        IN  result.locals.experience_score =
                ScoreFor(counted, job_data.experience_years)

\* what an entry contributes when a missing second year defaults to 2024
RECURSIVE SumWithDefaultEnd(_)
SumWithDefaultEnd(entries) ==
    IF entries = <<>> THEN 0
    ELSE (LET y == findall_years(Head(entries).dates)
          IN  IF Len(y) >= 2 THEN int(y[2]) - int(y[1])
              ELSE IF Len(y) = 1 THEN 2024 - int(y[1])
              ELSE 0)
         + SumWithDefaultEnd(Tail(entries))

\* C17: an entry with a start year and no second year ("2020 - Present")
\* contributes 2024 - startYear to the accumulated years.
C17_EndYearDefault ==
    (Returned /\ job_data.experience_years > 0) =>
        LET entries == resume_data.experience
            total == SumWithDefaultEnd(entries)
            counted == IF total = 0 /\ entries # <<>> THEN 2 * Len(entries)
                       ELSE total
        IN  result.locals.experience_score =
                ScoreFor(counted, job_data.experience_years)

\* C20: for a non-empty job skill set the skill score is
\* 100 * |matchedSkills| / |job skills|, on the returned original-casing
\* sets.
C20_ScoreMatchesLists ==
    (Returned /\ job_data.skills # {}) =>
        /\ result.locals.skills_score =
               Rat(100 * Cardinality(matchedSkills), Cardinality(job_data.skills))
        /\ result.skills_score =
               round(Rat(100 * Len(result.matched_skills),
                         Len(result.matched_skills) + Len(result.missing_skills)), 1)

\* the kinds of the sentences of a list, in order
Kinds(sentences) == [i \in DOMAIN sentences |-> sentences[i].kind]

\* the members of a rule table, in its order, whose conditions hold
Applicable(table) ==
    LET fired == SelectSeq(table, LAMBDA row : row.when)
    IN  [i \in DOMAIN fired |-> fired[i].kind]

\* the semantic score the rules see, in hundredths
SemanticHundredths == IF Degraded THEN 0 ELSE estimate.value

KeywordMatched ==
    \E r \in resume_data.keywords, j \in job_data.keywords :
        TrimLower(r) = TrimLower(j)

StrengthRules ==
    LET m == Len(result.matched_skills)
    IN  << [kind |-> "strong_skills", when |-> m >= 5],
           [kind |-> "some_skills", when |-> m >= 1 /\ m <= 4],
           [kind |-> "keywords", when |-> KeywordMatched],
           [kind |-> "semantic", when |-> SemanticHundredths >= 7000],
           [kind |-> "experience", when |-> resume_data.experience # <<>>],
           [kind |-> "education", when |-> resume_data.education # <<>>] >>

\* C18: the strengths list is never empty; it holds, in the order of the
\* rule table, the sentence of every rule that fires (strong wording iff
\* >= 5 matched skills, some-relevant wording iff 1 to 4, keywords iff a
\* keyword matched, alignment iff semantic score >= 70, experience iff the
\* resume has entries, education iff it has education entries), and the
\* fallback sentence alone iff no rule fires.
C18_StrengthsRuleTable ==
    Returned =>
        /\ result.strengths # <<>>
        /\ Kinds(result.strengths) =
               (IF Applicable(StrengthRules) = <<>> THEN <<"fallback">>
                ELSE Applicable(StrengthRules))

C18_Witness ==
    /\ Returned
    /\ Len(result.matched_skills) = 5
    /\ SemanticHundredths = 7000
    /\ Kinds(result.strengths) =
           <<"strong_skills", "keywords", "semantic", "experience", "education">>

SuggestionRules ==
    LET overall == ClaimedSum(result.locals)
    IN  << [kind |-> "missing_skills", when |-> missingSkills # {}],
           [kind |-> "low_score", when |-> Less(overall, Num(60))],
           [kind |-> "mid_score",
            when |-> ~Less(overall, Num(60)) /\ Less(overall, Num(80))],
           [kind |-> "semantic_alignment", when |-> SemanticHundredths < 6000],
           [kind |-> "experience_visibility",
            when |-> job_data.experience_years > 0 /\ resume_data.experience = <<>>],
           [kind |-> "add_keywords", when |-> Cardinality(resume_data.keywords) < 20],
           [kind |-> "formatting", when |-> TRUE] >>

\* C19: the suggestions list is the applicable subsequence of the fixed
\* order missing-skills, low-score (overall < 60) or else mid-score
\* (overall < 80), phrasing-alignment (semantic < 60), experience-visibility
\* (required years > 0 and no resume experience entries), add-keywords
\* (fewer than 20 resume keywords), formatting; low and mid never both; the
\* missing-skills sentence names at most 5 skills, all of missingSkills; the
\* formatting sentence is there once, last.
C19_SuggestionsRuleTable ==
    Returned =>
        LET s == result.suggestions
        IN  /\ Kinds(s) = Applicable(SuggestionRules)
            /\ ~(\E i, j \in DOMAIN s : s[i].kind = "low_score" /\ s[j].kind = "mid_score")
            /\ \A i \in DOMAIN s :
                   IF s[i].kind = "missing_skills"
                   THEN /\ Len(s[i].skills) <= 5
                        /\ Len(s[i].skills) >= 1
                        /\ Range(s[i].skills) \subseteq missingSkills
                   ELSE s[i].skills = <<>>
            /\ s[Len(s)].kind = "formatting"
            /\ Cardinality({i \in DOMAIN s : s[i].kind = "formatting"}) = 1

C19_Witness ==
    /\ Returned
    /\ Cardinality(missingSkills) = 6
    /\ Cardinality(resume_data.keywords) = 20
    /\ Len(result.suggestions[1].skills) = 5
    /\ Kinds(result.suggestions) = <<"missing_skills", "low_score", "formatting">>

\* the kinds of the sentences of the returned suggestions
SuggestionKinds == {result.suggestions[i].kind : i \in DOMAIN result.suggestions}

\* C21: the score-band suggestions agree with the overall score reported in
\* the same result: the low-score sentence is there if and only if the
\* returned, one-decimal overall_score is below 60, the mid-score sentence if
\* and only if the returned overall_score is at least 60 and below 80.
C21_BandsAgreeWithReported ==
    Returned =>
        /\ "low_score" \in SuggestionKinds
               <=> result.overall_score[1] < 60 * result.overall_score[2]
        /\ "mid_score" \in SuggestionKinds
               <=> /\ result.overall_score[1] >= 60 * result.overall_score[2]
                   /\ result.overall_score[1] < 80 * result.overall_score[2]

\* the lines after the first header line that are not empty and hold a date
\* range, ascending
DateLines ==
    Ascending({i \in AfterHeader :
                  ResumeLines[i] # <<>> /\ HoldsDateRange(ResumeLines[i])})

\* C22: the in-experience-section state is absorbing: once a header line has
\* been seen, every later date-range line opens a new entry, and every later
\* non-empty line that matches neither the header pattern nor the date
\* pattern, lines of later sections included, is appended to the description
\* of the most recent entry.
C22_SectionAbsorbing ==
    Extracted =>
        /\ Len(result.experience) = Len(DateLines)
        /\ \A k \in DOMAIN DateLines :
               /\ IsPrefix(ResumeLines[DateLines[k]], result.experience[k].description)
               /\ \A i \in AfterHeader :
                      ( /\ i > DateLines[k]
                        /\ k < Len(DateLines) => i < DateLines[k + 1]
                        /\ ResumeLines[i] # <<>>
                        /\ ~HoldsHeader(ResumeLines[i])
                        /\ ~HoldsDateRange(ResumeLines[i]) )
                      => Contains(result.experience[k].description,
                                  <<" ">> \o ResumeLines[i])

\* the lines from..to that are not empty and hold neither a date range nor
\* a header word, in order
KeptLines(from, to) ==
    SelectSeq([k \in 1..(to - from + 1) |-> ResumeLines[from + k - 1]],
              LAMBDA l : l # <<>> /\ ~HoldsDateRange(l) /\ ~HoldsHeader(l))

\* C23: no entry is made from a line before the first header line, and a
\* line that matches the header pattern is skipped, date range or not: it
\* opens no entry and is appended to no description.  The entries are those
\* of the date lines after the first header line that hold no header word,
\* each with the lines up to the next such line that hold neither; a text
\* with no header line yields the empty list.
C23_HeaderGatesEntries ==
    Extracted =>
        /\ Len(result.experience) = Len(OpeningLines)
        /\ \A k \in DOMAIN OpeningLines :
               LET from == OpeningLines[k]
                   to == IF k < Len(OpeningLines) THEN OpeningLines[k + 1] - 1
                         ELSE Len(ResumeLines)
               IN  /\ Contains(ResumeLines[from], result.experience[k].dates)
                   /\ result.experience[k].description =
                          join_space(<<ResumeLines[from]>> \o KeptLines(from + 1, to))
        /\ (\A i \in DOMAIN ResumeLines : ~HoldsHeader(ResumeLines[i]))
               => result.experience = <<>>

\* a date line before the header and a date line with a header word after
\* it, neither of which made an entry, and one entry from a later date line
C23_Witness ==
    /\ Extracted
    /\ \E i \in DOMAIN ResumeLines \ AfterHeader :
           HoldsDateRange(ResumeLines[i]) /\ ~HoldsHeader(ResumeLines[i])
    /\ \E i \in AfterHeader :
           HoldsDateRange(ResumeLines[i]) /\ HoldsHeader(ResumeLines[i])
    /\ Len(result.experience) = 1

=============================================================================
